---- MODULE Spec2Model ----
(***************************************************************************)
(* A model of serial-tester: the HTTP session (EmulatedSession, the first  *)
(* revision held in src/unnamed/part_001, the one src/src/serial-skipper.ts*)
(* imports as './serial-api') and the browser session                      *)
(* (BrowserEmulatedSession, src/src/serial-skipper.ts).                    *)
(***************************************************************************)
EXTENDS Integers, Sequences, FiniteSets, TLC

VARIABLES
    \* ---- getResult(result, 'JSON+') applied to one response text --------
    grText,        \* the raw response text: content tokens and line ends
    grVerbose,     \* this.verbose of the session that parses
    grPc,          \* "ready" before the call, "done" after it
    grOut,         \* what the call returned or threw
    grNotices,     \* the local array `notices` when the call ended
    grLog,         \* the console.log calls the call made, in order
    \* ---- compareRows(obtained, expected, compare) -----------------------
    crObtained,    \* the observed rows
    crExpected,    \* the expected rows
    crCompare,     \* the comparison mode
    crPc,          \* "ready" before the call, "done" after it
    crOut,         \* what the call returned or threw
    \* ---- getJsonPkValues(table, rowToSave, primaryKeyValues), twice ------
    pkTable,       \* the table name given to both calls
    pkRows,        \* the two rows to save, each with its keys in iteration order
    pkExplicit,    \* the primaryKeyValues argument given to both calls
    pkOut,         \* what the calls made so far returned or threw, in order
    \* ---- one session, of either mode ------------------------------------
    mode,          \* "http": an EmulatedSession; "browser": a BrowserEmulatedSession
    cookies,       \* this.cookies: the Set-Cookie values last captured
    config,        \* this.config
    page,          \* this._page: null or the page
    context,       \* this.context: null or the browser context
    browser,       \* the contexts and pages the browser created, open or closed
    calls,         \* the operations called on the session so far, each with
                   \* its place (pc), the requests it sent and its outcome
    lastSetCookie, \* the Set-Cookie values of the response received last, and
                   \* the call it answered
    \* ---- saveRecord 'new', saveRecord 'update', tableDataTest ------------
    rtMode,        \* the mode of the session the three calls are made on
    rtDescription, \* target.description: the kind declared for each column
    rtBefore,      \* the rows the table held before the first call
    rtStored,      \* the rows the backend holds in the table, in order
    rtRows,        \* the row saved as new and the row saved as its update
    rtOut,         \* what the calls made so far returned or threw, in order
    rtObtained,    \* the rows tableDataTest read, before their projection
    \* ---- one call of a function whose result depends on its arguments only
    fnName,        \* the function called
    fnArgs,        \* its arguments
    fnOut,         \* what it returned or threw, once called
    \* ---- two sessions created by one createSession ------------------------
    tsMode,        \* the mode of both sessions
    ts,            \* the cookies, config, page and context of each session
    tsBrowser,     \* the contexts and pages of the browser both sessions use
    tsActor,       \* the session whose operation took the last step
    \* ---- one call of withTimeout -----------------------------------------
    wtArgs,        \* the promise (or function) given, and the message
    wtPromise,     \* the promise raced against the timer: not made yet,
                   \* pending, or settled
    wtTimer,       \* the timer: not set, running, or fired
    wtFirst,       \* which of the two settled first, if any has
    wtOut,         \* how the promise withTimeout returned has settled, if it has
    \* ---- one operation of a session, await by await ------------------------
    opArgs,        \* the operation, the mode of its session, and its arguments
    opPc,          \* the place the operation is at
    opAt,          \* the await it is at, for an operation that is a chain of awaits
    opRow,         \* saveRecord: tableRow, the row located
    opElement,     \* saveRecord: element, the cell located for the current column
    opTouched,     \* saveRecord: touchedElements
    opSeen,        \* saveRecord: for each save-status wait that ended, whether
                   \* the touched cell had a terminal status then
    opTrace,       \* the actions of the operation on the page and the network
    opOut,         \* what the operation returned or threw, once it ended
    \* ---- one call of tableDataSaveAndTest ---------------------------------
    stMode,        \* the mode of the session it is called on
    stRows,        \* the rows given, each with its keys in iteration order
    stStored,      \* the rows the backend holds in the table, in order
    stAt,          \* how many rows the loop has saved
    stPc,          \* the place the call is at
    stLog,         \* the calls of saveRecord and tableDataTest it made, and
                   \* how each saveRecord ended, in order
    stOut,         \* what the call returned or threw, once it ended
    \* ---- one BrowserManager ------------------------------------------------
    bmType,        \* config.browserType
    bmBrowser,     \* this.browser: null or the browser launched
    bmLaunched,    \* the browsers launched so far, each open or closed
    bmCalls        \* the calls made so far, each with this.browser before
                   \* and after it and with what it returned or threw

parseVars == <<grText, grVerbose, grPc, grOut, grNotices, grLog>>
rowsVars  == <<crObtained, crExpected, crCompare, crPc, crOut>>

pkVars    == <<pkTable, pkRows, pkExplicit, pkOut>>

sessVars  == <<mode, cookies, config, page, context, browser, calls, lastSetCookie>>

rtVars    == <<rtMode, rtDescription, rtBefore, rtStored, rtRows, rtOut, rtObtained>>

fnVars    == <<fnName, fnArgs, fnOut>>

tsVars    == <<tsMode, ts, tsBrowser, tsActor>>

wtVars    == <<wtArgs, wtPromise, wtTimer, wtFirst, wtOut>>

opVars    == <<opArgs, opPc, opAt, opRow, opElement, opTouched, opSeen, opTrace, opOut>>

stVars    == <<stMode, stRows, stStored, stAt, stPc, stLog, stOut>>

bmVars    == <<bmType, bmBrowser, bmLaunched, bmCalls>>

\* what the session leaves alone
pureVars  == <<parseVars, rowsVars, pkVars, rtVars, fnVars, tsVars, wtVars, opVars, stVars, bmVars>>

vars == <<parseVars, rowsVars, pkVars, sessVars, rtVars, fnVars, tsVars, wtVars, opVars, stVars, bmVars>>

(***************************************************************************)
(* JavaScript values.  Every value is a record with a field t (its type),  *)
(* so that any two values can be compared.                                 *)
(***************************************************************************)
Undefined == [t |-> "undefined"]
Null      == [t |-> "null"]
Str(s)    == [t |-> "string", v |-> s]
ErrorObj(message, code) == [t |-> "object", message |-> message, code |-> code]
\* an object decoded from one line: its `error` property and the rest of it
Obj(error, rest) == [t |-> "object", error |-> error, rest |-> rest]
SyntaxError == [t |-> "SyntaxError"]

\* JavaScript truthiness of the values above
Truthy(v) == v.t \notin {"undefined", "null"}

(***************************************************************************)
(* Outcomes of a call: a returned value or a thrown error.                 *)
(***************************************************************************)
NoOutcome == [kind |-> "none", value |-> Undefined, message |-> "", code |-> Undefined]
Return(v) == [kind |-> "return", value |-> v, message |-> "", code |-> Undefined]
Throw(message, code) ==
    [kind |-> "throw", value |-> Undefined, message |-> message, code |-> code]

(***************************************************************************)
(* Response texts.  A text is a sequence of tokens: the content of a line  *)
(* (a string holding no line end) or a line end, "\n" or "\r\n".  Two      *)
(* contents are never adjacent, and an empty content is not written.       *)
(***************************************************************************)
MaxLines == 4

LF   == "\n"
CRLF == "\r\n"
LineEnds == {LF, CRLF}

Separator   == "--"
NoticeLine  == "{\"progress\":1}"
ErrorLineA  == "{\"error\":{\"message\":\"m\",\"code\":\"A\"}}"
ErrorLineB  == "{\"error\":{\"message\":\"m\",\"code\":\"B\"}}"
ErrorNull   == "{\"error\":null}"
NullLine    == "null"
Garbage     == "oops"
ConfigText  == "{\"config\":{}}"

\* the lines a response is made of ("" is the empty line)
LineContents ==
    {"", Separator, NoticeLine, ErrorLineA, ErrorLineB, ErrorNull, NullLine, Garbage}

\* JSON4all.parse of one line: the decoded value, or SyntaxError when it throws
JSON4allParse(s) ==
    CASE s = NoticeLine  -> Obj(Undefined, "progress")
      [] s = "{}"        -> Obj(Undefined, "")
      [] s = ErrorLineA  -> Obj(ErrorObj("m", Str("A")), "")
      [] s = ErrorLineB  -> Obj(ErrorObj("m", Str("B")), "")
      [] s = ErrorNull   -> Obj(Null, "")
      [] s = NullLine    -> Null
      [] s = ConfigText  -> Obj(Undefined, "config")
      [] OTHER           -> SyntaxError

\* lines joined into a text, eols[i] standing between line i and line i+1
RECURSIVE JoinLines(_, _)
JoinLines(lines, eols) ==
    IF Len(lines) = 1
    THEN (IF lines[1] = "" THEN <<>> ELSE <<lines[1]>>)
    ELSE (IF lines[1] = "" THEN <<>> ELSE <<lines[1]>>)
         \o <<eols[1]>> \o JoinLines(Tail(lines), Tail(eols))

\* result.split(/\r?\n/): cur is the content read since the last line end
RECURSIVE SplitFrom(_, _)
SplitFrom(text, cur) ==
    IF text = <<>> THEN <<cur>>
    ELSE IF Head(text) \in LineEnds
         THEN <<cur>> \o SplitFrom(Tail(text), "")
         ELSE SplitFrom(Tail(text), Head(text))

SplitLines(text) == SplitFrom(text, "")

\* OrElse keeping the empty string
OrElse_Keeps(s, dflt) == s

\* a || b on strings
OrElse(s, dflt) == IF s = "" THEN dflt ELSE s

\* ShiftOrNull with the line after the separator never read
ShiftOrNull_Dropped(rest) == "null"

\* lines.shift() || 'null' on the lines left after the separator
ShiftOrNull(rest) == IF rest = <<>> THEN "null" ELSE OrElse(Head(rest), "null")

LogText(s)       == [tag |-> "text", items |-> <<s>>]
LogJsonError(l)  == [tag |-> "Json error:", items |-> <<l>>]
LogNotices(ns)   == [tag |-> "notices", items |-> ns]

\* ResultNotReceived returning the notices instead of failing
ResultNotReceived_Returns(notices, verbose) ==
    [out |-> Return(Null), notices |-> notices, log |-> <<>>]

\* the tail of getResult's 'JSON+' branch, reached when the lines run out
ResultNotReceived(notices, verbose) ==
    [out     |-> Throw("result not received", Undefined),
     notices |-> notices,
     log     |-> IF notices # <<>> /\ verbose
                 THEN <<LogText("notices"), LogNotices(notices)>>
                 ELSE <<>>]

\* the value obj.error is read from: reading a property of null throws
ReadsError(obj) == obj.t = "object"

\* BackendError without the assignment error.code = obj.error.code
BackendError_NoCode(error) ==
    Throw("Backend error: " \o error.message, Undefined)

BackendError(error) ==
    Throw("Backend error: " \o error.message, error.code)

\* one pass of the do ... while loop of getResult's 'JSON+' branch, and the
\* passes after it; lines is never empty here
RECURSIVE JsonPlusLoop(_, _, _)
JsonPlusLoop(lines, notices, verbose) ==
    LET line == Head(lines)
        rest == Tail(lines)
        obj  == JSON4allParse(OrElse(line, "{}"))
    IN  IF line = Separator
        THEN LET payload == JSON4allParse(ShiftOrNull(rest))
             IN  [out     |-> IF payload = SyntaxError
                              THEN Throw("SyntaxError", Undefined)
                              ELSE Return(payload),
                  notices |-> notices,
                  log     |-> <<>>]
        ELSE IF obj = SyntaxError
        THEN [out     |-> Throw("SyntaxError", Undefined),
              notices |-> notices,
              log     |-> <<LogJsonError(line)>>]
        ELSE IF ~ReadsError(obj)
        THEN [out     |-> Throw("TypeError", Undefined),
              notices |-> notices,
              log     |-> <<>>]
        ELSE IF Truthy(obj.error)
        THEN [out     |-> BackendError(obj.error),
              notices |-> notices,
              log     |-> <<>>]
        ELSE IF rest # <<>>
        THEN JsonPlusLoop(rest, Append(notices, line), verbose)
        ELSE ResultNotReceived(Append(notices, line), verbose)

\* getResult(result, 'JSON+')
GetResultJsonPlus(text, verbose) == JsonPlusLoop(SplitLines(text), <<>>, verbose)

\* how a response writes its line ends: all "\n", all "\r\n", or both in turn
EolStyles == {"unix", "dos", "mixed"}
EolOf(style, i) ==
    CASE style = "unix" -> LF
      [] style = "dos"  -> CRLF
      [] OTHER          -> IF i % 2 = 1 THEN CRLF ELSE LF

ResponseTexts ==
    {JoinLines(ls, [i \in 1..(Len(ls) - 1) |-> EolOf(st, i)]) :
        <<ls, st>> \in (UNION {[1..k -> LineContents] : k \in 1..MaxLines}) \X EolStyles}

ParseInit ==
    /\ grText \in ResponseTexts
    /\ grVerbose \in BOOLEAN
    /\ grPc = "ready"
    /\ grOut = NoOutcome
    /\ grNotices = <<>>
    /\ grLog = <<>>

\* the session parses the response text it received
GetResult ==
    /\ grPc = "ready"
    /\ LET r == GetResultJsonPlus(grText, grVerbose)
       IN  /\ grOut' = r.out
           /\ grNotices' = r.notices
           /\ grLog' = r.log
    /\ grPc' = "done"
    /\ UNCHANGED <<grText, grVerbose>>

(***************************************************************************)
(* The row comparator: compareRows.  A row is a function from the columns  *)
(* it holds to their values; a row list is a sequence of rows.             *)
(***************************************************************************)
MaxRows == 2

\* rows over the columns a, b, c: a is always 1, b is absent, 2 or 3, and c
\* is absent or 99
Rows ==
    {[k \in ks |-> CASE k = "a" -> 1 [] k = "b" -> b [] OTHER -> 99] :
        <<ks, b>> \in {{"a"}, {"a", "b"}, {"a", "c"}, {"a", "b", "c"}} \X {2, 3}}

RowLists == UNION {[1..n -> Rows] : n \in 0..MaxRows}

CompareModes == {"all", "unordered"}

\* LikeAr(expected[0]).map(_ => true).plain()
ExistColumn(expected) == [k \in DOMAIN expected[1] |-> TRUE]

\* LikeAr(row).filter((_,k) => !!existColumn[k]).plain()
FilterRow(row, existColumn) ==
    [k \in {c \in DOMAIN row : c \in DOMAIN existColumn /\ existColumn[c]} |-> row[k]]

\* FilteredReponseRows projecting each row onto its own expected row's columns
FilteredReponseRows_OwnColumns(obtained, expected) ==
    [i \in 1..Len(obtained) |->
        IF i <= Len(expected)
        THEN FilterRow(obtained[i], [k \in DOMAIN expected[i] |-> TRUE])
        ELSE obtained[i]]

\* the local filteredReponseRows of compareRows
FilteredReponseRows(obtained, expected) ==
    IF Len(expected) > 0
    THEN [i \in 1..Len(obtained) |-> FilterRow(obtained[i], ExistColumn(expected))]
    ELSE obtained

\* DeepEqualRows comparing the two lists as sets of rows
DeepEqualRows_Unordered(xs, ys) ==
    {xs[i] : i \in 1..Len(xs)} = {ys[i] : i \in 1..Len(ys)}

\* the deep structural equality discrepances.showAndThrow tests on two row lists
DeepEqualRows(xs, ys) ==
    /\ Len(xs) = Len(ys)
    /\ \A i \in 1..Len(xs) :
          /\ DOMAIN xs[i] = DOMAIN ys[i]
          /\ \A k \in DOMAIN xs[i] : xs[i][k] = ys[i][k]

\* discrepances.showAndThrow(obtained, expected)
ShowAndThrow(obtained, expected) ==
    IF DeepEqualRows(obtained, expected)
    THEN Return(Undefined)
    ELSE Throw("discrepances", Undefined)

\* compareRows(obtained, expected, compare)
CompareRowsResult(obtained, expected, compare) ==
    IF compare = "all"
    THEN ShowAndThrow(FilteredReponseRows(obtained, expected), expected)
    ELSE Throw("mode not recognized " \o compare, Undefined)

ParseIdle ==
    /\ grText = <<>>
    /\ grVerbose = FALSE
    /\ grPc = "idle"
    /\ grOut = NoOutcome
    /\ grNotices = <<>>
    /\ grLog = <<>>

RowsInit ==
    /\ crObtained \in RowLists
    /\ crExpected \in RowLists
    /\ crCompare \in CompareModes
    /\ crPc = "ready"
    /\ crOut = NoOutcome

RowsIdle ==
    /\ crObtained = <<>>
    /\ crExpected = <<>>
    /\ crCompare = "all"
    /\ crPc = "idle"
    /\ crOut = NoOutcome

\* the session compares the rows it obtained with the expected ones
CompareRows ==
    /\ crPc = "ready"
    /\ crOut' = CompareRowsResult(crObtained, crExpected, crCompare)
    /\ crPc' = "done"
    /\ UNCHANGED <<crObtained, crExpected, crCompare>>

(***************************************************************************)
(* The primary-key signature: getJsonPkValues.  A row to save is an object *)
(* whose keys have an iteration order: a sequence of <<key, value>> pairs  *)
(* with distinct keys.                                                     *)
(***************************************************************************)
Num(n) == [t |-> "number", v |-> n]
Bool(b) == [t |-> "boolean", v |-> b]
Arr(xs) == [t |-> "array", items |-> xs]

\* server.tableStructures: the primary key each table declares
TableStructures ==
    [items |-> [primaryKey |-> <<"id", "sub">>],
     people |-> [primaryKey |-> <<"id">>]]

TableNames == {"items", "people", "ghost"}

\* the values a row may hold in each column
ColumnValues ==
    [id |-> {Num(5), Num(6)}, sub |-> {Num(1), Num(2)}, name |-> {Str("x")}]

\* the orders in which the keys of the set ks can be iterated
KeyOrders(ks) ==
    {o \in [1..Cardinality(ks) -> ks] : \A i, j \in DOMAIN o : o[i] = o[j] => i = j}

RowsToSave ==
    UNION {{[i \in DOMAIN o |-> <<o[i], val[o[i]]>>] :
                <<o, val>> \in KeyOrders(ks) \X
                    {v \in [ks -> UNION {ColumnValues[k] : k \in ks}] :
                        \A k \in ks : v[k] \in ColumnValues[k]}}
           : ks \in SUBSET (DOMAIN ColumnValues)}

\* Object.keys(row)
Keys(row) == [i \in DOMAIN row |-> row[i][1]]

\* row[f]: undefined when the row holds no key f
Get(row, f) ==
    IF \E i \in DOMAIN row : row[i][1] = f
    THEN row[CHOOSE i \in DOMAIN row : row[i][1] = f][2]
    ELSE Undefined

\* JSON4all.stringify of one value
RECURSIVE JSON4allStringify(_)
RECURSIVE StringifyItems(_)
StringifyItems(xs) ==
    IF xs = <<>> THEN ""
    ELSE JSON4allStringify(Head(xs))
         \o (IF Len(xs) > 1 THEN "," ELSE "") \o StringifyItems(Tail(xs))

JSON4allStringify(v) ==
    CASE v.t = "number"    -> ToString(v.v)
      [] v.t = "string"    -> "\"" \o v.v \o "\""
      [] v.t = "boolean"   -> IF v.v THEN "true" ELSE "false"
      [] v.t = "null"      -> "null"
      [] v.t = "undefined" -> "{\"$special\":\"undefined\"}"
      [] v.t = "array"     -> "[" \o StringifyItems(v.items) \o "]"

\* PrimaryKeyOf taking the key values in the iteration order of the row
PrimaryKeyOf_RowOrder(tableDef, rowToSave) ==
    LET ks == {i \in DOMAIN rowToSave :
                  \E j \in DOMAIN tableDef.primaryKey :
                      tableDef.primaryKey[j] = rowToSave[i][1]}
        RECURSIVE Pick(_)
        Pick(i) ==
            IF i > Len(rowToSave) THEN <<>>
            ELSE (IF i \in ks THEN <<rowToSave[i][2]>> ELSE <<>>) \o Pick(i + 1)
    IN  Pick(1)

\* tableDef.primaryKey.map(f => rowToSave[f])
PrimaryKeyOf(tableDef, rowToSave) ==
    [i \in DOMAIN tableDef.primaryKey |-> Get(rowToSave, tableDef.primaryKey[i])]

\* GetJsonPkValuesResult never using the primaryKeyValues argument
GetJsonPkValuesResult_FromRow(table, rowToSave, primaryKeyValues) ==
    IF table \notin DOMAIN TableStructures
    THEN Throw("table \"" \o table \o "\" not found in server.tableStructures", Undefined)
    ELSE Return(Str(JSON4allStringify(Arr(PrimaryKeyOf(TableStructures[table], rowToSave)))))

\* getJsonPkValues(table, rowToSave, primaryKeyValues); primaryKeyValues is
\* undefined, null or an array
GetJsonPkValuesResult(table, rowToSave, primaryKeyValues) ==
    IF table \notin DOMAIN TableStructures
    THEN Throw("table \"" \o table \o "\" not found in server.tableStructures", Undefined)
    ELSE Return(Str(JSON4allStringify(
            IF primaryKeyValues.t \in {"undefined", "null"}
            THEN Arr(PrimaryKeyOf(TableStructures[table], rowToSave))
            ELSE primaryKeyValues)))

PkInit ==
    /\ pkTable \in TableNames
    /\ pkRows \in RowsToSave \X RowsToSave
    /\ pkExplicit \in {Undefined, Null, Arr(<<Num(5)>>)}
    /\ pkOut = <<>>

PkIdle ==
    /\ pkTable = "ghost"
    /\ pkRows = <<>>
    /\ pkExplicit = Undefined
    /\ pkOut = <<>>

\* the session computes the signature of the next of the two rows
GetJsonPkValues ==
    /\ Len(pkOut) < Len(pkRows)
    /\ pkOut' = Append(pkOut,
            GetJsonPkValuesResult(pkTable, pkRows[Len(pkOut) + 1], pkExplicit))
    /\ UNCHANGED <<pkTable, pkRows, pkExplicit>>

(***************************************************************************)
(* The session.  An HTTP operation is a call that sends requests and waits *)
(* for their responses; calls may overlap.  calls[i] is the i-th operation *)
(* called, kept after it ended.                                            *)
(***************************************************************************)
MaxCalls == 2

\* a URL or path as its pieces: a leading "." is a piece of its own
SuccessRedirect == <<"/menu">>
Locations == {Null, Str(<<".", "/menu">>), Str(<<".", "/login">>)}

\* a Set-Cookie value as its pieces between ";"
CookieSid  == <<"sid=1", " Path=/", " HttpOnly">>
CookieLang == <<"lang=es">>
SetCookieLists == {<<>>, <<CookieSid>>, <<CookieSid, CookieLang>>}

Statuses == {200, 302, 401}

\* what this.fetch learns when the response headers arrive
Responses == [status : Statuses, location : Locations, setCookie : SetCookieLists]

\* this.cookies.map(c => c.split(';')[0]).join('; ')
RECURSIVE JoinCookies(_)
JoinCookies(cs) ==
    IF Len(cs) = 1 THEN Head(Head(cs))
    ELSE Head(Head(cs)) \o "; " \o JoinCookies(Tail(cs))

\* the Cookie header request() attaches: none when no cookie is held
CookieHeader(cs) == IF Len(cs) > 0 THEN Str(JoinCookies(cs)) ELSE Undefined

\* one request as fetch sees it
Request(path, method, hasPayload, cs) ==
    [path |-> path, method |-> method,
     contentType |-> IF hasPayload THEN Str("application/x-www-form-urlencoded")
                     ELSE Undefined,
     cookie |-> CookieHeader(cs)]

\* what a call keeps of a request it sent
Sent(request) == [path |-> request.path, method |-> request.method]

\* a call as it starts
NewCall(op, returnErrorMessage, pc, sent) ==
    [op |-> op, returnErrorMessage |-> returnErrorMessage, pc |-> pc,
     sent |-> sent, status |-> 0, location |-> Undefined, body |-> Undefined,
     shown |-> Undefined, outcome |-> NoOutcome]

Ended(call, outcome) == [call EXCEPT !.pc = "done", !.outcome = outcome]

NoSetCookie == [got |-> FALSE, from |-> 0, values |-> <<>>]

\* the places where a call waits for response headers, and for a body
AwaitsHeaders == {"login-post", "error-page-headers", "client-setup-headers",
                  "procedure-headers"}
AwaitsBody == {"error-page-body", "client-setup-body", "procedure-body"}

SessionInit ==
    /\ mode \in {"http", "browser"}
    /\ cookies = <<>>
    /\ config = Undefined
    /\ page = Null
    /\ context = Null
    /\ browser = [contexts |-> <<>>, pages |-> <<>>]
    /\ calls = <<>>
    /\ lastSetCookie = NoSetCookie

SessionIdle ==
    /\ mode = "none"
    /\ cookies = <<>>
    /\ config = Undefined
    /\ page = Null
    /\ context = Null
    /\ browser = [contexts |-> <<>>, pages |-> <<>>]
    /\ calls = <<>>
    /\ lastSetCookie = NoSetCookie

CanCall == Len(calls) < MaxCalls

\* login(credentials, opts) of an HTTP session, up to its first await:
\* POST /login is sent, asking for the headers only
HttpLogin ==
    /\ mode = "http"
    /\ CanCall
    /\ \E rem \in BOOLEAN :
          calls' = Append(calls,
              NewCall("login", rem, "login-post",
                      <<Sent(Request(<<"/login">>, "post", TRUE, cookies))>>))
    /\ UNCHANGED <<mode, cookies, config, page, context, browser, lastSetCookie, pureVars>>

\* callProcedure(target, params), up to its first await: the procedure is posted
CallProcedure ==
    /\ mode \in {"http", "browser"}
    /\ CanCall
    /\ calls' = Append(calls,
          NewCall("callProcedure", FALSE, "procedure-headers",
                  <<Sent(Request(<<"/procedure">>, "post", TRUE, cookies))>>))
    /\ UNCHANGED <<mode, cookies, config, page, context, browser, lastSetCookie, pureVars>>

\* HttpCloseSession leaving config as it is
HttpCloseSession_KeepsConfig ==
    /\ mode = "http"
    /\ CanCall
    /\ calls' = Append(calls,
          Ended(NewCall("closeSession", FALSE, "done", <<>>), Return(Undefined)))
    /\ UNCHANGED <<mode, cookies, config, page, context, browser, lastSetCookie, pureVars>>

\* closeSession() of an HTTP session
HttpCloseSession ==
    /\ mode = "http"
    /\ CanCall
    /\ config' = Null
    /\ calls' = Append(calls,
          Ended(NewCall("closeSession", FALSE, "done", <<>>), Return(Undefined)))
    /\ UNCHANGED <<mode, cookies, page, context, browser, lastSetCookie, pureVars>>

\* location?.replace(/^\./, '')
StripDot(location) ==
    IF location = Null THEN Undefined
    ELSE IF location.v # <<>> /\ Head(location.v) = "." THEN Str(Tail(location.v))
    ELSE location

\* location?.replace(/^\./, '') != successRedirect, negated
HttpLoginMatches(location, successRedirect) == StripDot(location) = Str(successRedirect)

\* LoginStatusOk accepting every redirection status
LoginStatusOk_AnyStatus(status) == status >= 200

\* the status login() requires of the response to POST /login
LoginStatusOk(status) == status = 302

\* LoginAfterPost returning null on a matching redirect without asking for
\* the client configuration
LoginAfterPost_NoClientSetup(call, resp, cs) ==
    LET c == [call EXCEPT !.status = resp.status, !.location = resp.location] IN
    IF ~LoginStatusOk(resp.status)
    THEN Ended(c, Throw("se esperaba una redireccion", Undefined))
    ELSE IF ~HttpLoginMatches(resp.location, SuccessRedirect)
    THEN IF c.returnErrorMessage
         THEN IF resp.location = Null
              THEN Ended(c, Throw("TypeError", Undefined))
              ELSE [c EXCEPT !.pc = "error-page-headers",
                             !.sent = Append(@,
                                 Sent(Request(resp.location.v, "get", FALSE, cs)))]
         ELSE Ended(c, Throw("discrepances", Undefined))
    ELSE Ended(c, Return(Null))

\* LoginAfterPost never reading opts.returnErrorMessage
LoginAfterPost_IgnoresOption(call, resp, cs) ==
    LET c == [call EXCEPT !.status = resp.status, !.location = resp.location] IN
    IF ~LoginStatusOk(resp.status)
    THEN Ended(c, Throw("se esperaba una redireccion", Undefined))
    ELSE IF ~HttpLoginMatches(resp.location, SuccessRedirect)
    THEN Ended(c, Throw("discrepances", Undefined))
    ELSE [c EXCEPT !.pc = "client-setup-headers",
                   !.sent = Append(@,
                       Sent(Request(<<"/client-setup">>, "get", FALSE, cs)))]

\* login() of an HTTP session from the response to POST /login to its next
\* await or its end; cs is the cookie set just captured
LoginAfterPost(call, resp, cs) ==
    LET c == [call EXCEPT !.status = resp.status, !.location = resp.location] IN
    IF ~LoginStatusOk(resp.status)
    THEN Ended(c, Throw("se esperaba una redireccion", Undefined))
    ELSE IF ~HttpLoginMatches(resp.location, SuccessRedirect)
    THEN IF c.returnErrorMessage
         THEN IF resp.location = Null
              THEN Ended(c, Throw("TypeError", Undefined))
              ELSE [c EXCEPT !.pc = "error-page-headers",
                             !.sent = Append(@,
                                 Sent(Request(resp.location.v, "get", FALSE, cs)))]
         ELSE Ended(c, Throw("discrepances", Undefined))
    ELSE [c EXCEPT !.pc = "client-setup-headers",
                   !.sent = Append(@,
                       Sent(Request(<<"/client-setup">>, "get", FALSE, cs)))]

\* Captured keeping the cookies held before
Captured_Merged(held, setCookie) == held \o setCookie

\* this.cookies = response.headers.getSetCookie()
Captured(held, setCookie) == setCookie

\* the headers of a response arrive: fetch() captures the cookies, and the
\* call goes on to its next await or to its end
FetchHeaders ==
    \E i \in 1..Len(calls), resp \in Responses :
        /\ calls[i].pc \in AwaitsHeaders
        /\ calls[i].pc # "login-post" => (resp.status = 200 /\ resp.location = Null)
        /\ cookies' = Captured(cookies, resp.setCookie)
        /\ lastSetCookie' = [got |-> TRUE, from |-> i, values |-> resp.setCookie]
        /\ calls' = [calls EXCEPT ![i] =
              CASE @.pc = "login-post"           -> LoginAfterPost(@, resp, cookies')
                [] @.pc = "error-page-headers"   -> [@ EXCEPT !.pc = "error-page-body"]
                [] @.pc = "client-setup-headers" -> [@ EXCEPT !.pc = "client-setup-body"]
                [] @.pc = "procedure-headers"    -> [@ EXCEPT !.pc = "procedure-body"]]
        /\ UNCHANGED <<mode, config, page, context, browser, pureVars>>

PageWithError    == "<div class=\"error-message\">bad user</div>"
PageWithoutError == "<html></html>"

\* GetResultLoginError with an expression that never matches
GetResultLoginError_NoMatch(text) == Undefined

\* getResult(result, 'bp-login-error'):
\* result.match(/\berror-message[^>]*>([^<]*)</)?.[1]
GetResultLoginError(text) ==
    IF text = PageWithError THEN Str("bad user") ELSE Undefined

\* the texts a body may hold, for each place a call reads one
Bodies(pc) ==
    CASE pc = "error-page-body"   -> {PageWithError, PageWithoutError}
      [] pc = "client-setup-body" -> {ConfigText, Garbage}
      [] pc = "procedure-body"    ->
            {<<Separator, LF, NoticeLine>>, <<ErrorLineA, LF, Separator>>, <<>>}

\* callProcedure() after the body is read: getResult in 'JSON+' mode, then
\* guarantee(target.result, result), which the result passes or not
ProcedureAfterBody(call, text, valid) ==
    LET r == GetResultJsonPlus(text, FALSE).out IN
    IF r.kind = "throw" THEN Ended(call, r)
    ELSE IF valid THEN Ended(call, r)
    ELSE Ended(call, Throw("guarantee", Undefined))

\* the body of a response has been read: the call goes on to its end
FetchBody ==
    \E i \in 1..Len(calls) :
        /\ calls[i].pc \in AwaitsBody
        /\ \E text \in Bodies(calls[i].pc), valid \in BOOLEAN :
              LET call == [calls[i] EXCEPT !.body = Str(text)]
                  setup == JSON4allParse(text)
              IN  CASE call.pc = "error-page-body" ->
                         /\ calls' = [calls EXCEPT ![i] =
                                Ended(call, Return(GetResultLoginError(text)))]
                         /\ config' = config
                    [] call.pc = "client-setup-body" ->
                         IF setup = SyntaxError
                         THEN /\ calls' = [calls EXCEPT ![i] =
                                    Ended(call, Throw("SyntaxError", Undefined))]
                              /\ config' = config
                         ELSE /\ calls' = [calls EXCEPT ![i] = Ended(call, Return(Null))]
                              /\ config' = setup
                    [] call.pc = "procedure-body" ->
                         /\ calls' = [calls EXCEPT ![i] =
                                ProcedureAfterBody(call, text, valid)]
                         /\ config' = config
        /\ UNCHANGED <<mode, cookies, page, context, browser, lastSetCookie, pureVars>>

\* fetch() or response.text() rejects: the call fails where it waits
FetchRejects ==
    \E i \in 1..Len(calls) :
        /\ calls[i].pc \in AwaitsHeaders \cup AwaitsBody
        /\ calls' = [calls EXCEPT ![i] = Ended(@, Throw("fetch failed", Undefined))]
        /\ UNCHANGED <<mode, cookies, config, page, context, browser, lastSetCookie, pureVars>>

(***************************************************************************)
(* The browser session.  Its operations are modelled whole: what the       *)
(* browser answers at each await is chosen when the operation is called.   *)
(***************************************************************************)
\* the session fields a browser operation reads and writes
Fields == [page |-> page, context |-> context, browser |-> browser, config |-> config]

Step(s, out) == [s |-> s, out |-> out, shown |-> Undefined]

\* InitSessionOn without the early return of an initialised session
InitSessionOn_NoGuard(s, contextOk, pageOk) ==
    IF ~contextOk THEN Step(s, Throw("browser.newContext", Undefined))
    ELSE LET c  == Len(s.browser.contexts) + 1
             p  == Len(s.browser.pages) + 1
             s1 == [s EXCEPT !.context = Num(c),
                             !.browser.contexts = Append(@, "open")]
         IN  IF ~pageOk THEN Step(s1, Throw("context.newPage", Undefined))
             ELSE Step([s1 EXCEPT !.page = Num(p),
                                  !.browser.pages = Append(@, [context |-> c, state |-> "open"])],
                       Return(Undefined))

\* initSession(): contextOk and pageOk tell whether browser.newContext() and
\* context.newPage() succeed
InitSessionOn(s, contextOk, pageOk) ==
    IF s.context # Null THEN Step(s, Return(Undefined))
    ELSE IF ~contextOk THEN Step(s, Throw("browser.newContext", Undefined))
    ELSE LET c  == Len(s.browser.contexts) + 1
             p  == Len(s.browser.pages) + 1
             s1 == [s EXCEPT !.context = Num(c),
                             !.browser.contexts = Append(@, "open")]
         IN  IF ~pageOk THEN Step(s1, Throw("context.newPage", Undefined))
             ELSE Step([s1 EXCEPT !.page = Num(p),
                                  !.browser.pages = Append(@, [context |-> c, state |-> "open"])],
                       Return(Undefined))

\* the getter `page`: it throws when this._page is null
PageGetterThrows(s) == s.page = Null

\* PageGetterThrows for a `page` that is a plain field
PageGetterThrows_PlainField(s) == FALSE

\* EmulatedSession.closeSession(): this.config = null
BaseCloseSessionOn(s) == [s EXCEPT !.config = Null]

\* ClosedContext closing every context and page of the browser
ClosedContext_All(b, c) ==
    [contexts |-> [i \in DOMAIN b.contexts |-> "closed"],
     pages    |-> [i \in DOMAIN b.pages |-> [b.pages[i] EXCEPT !.state = "closed"]]]

\* context.close() closes the context and the pages it holds
ClosedContext(b, c) ==
    [contexts |-> [b.contexts EXCEPT ![c] = "closed"],
     pages    |-> [i \in DOMAIN b.pages |->
                     IF b.pages[i].context = c
                     THEN [b.pages[i] EXCEPT !.state = "closed"]
                     ELSE b.pages[i]]]

\* BrowserEmulatedSession.closeSession(): pageOk and contextOk tell whether
\* page.close() and context.close() succeed
CloseSessionOn(s, pageOk, contextOk) ==
    IF PageGetterThrows(s) THEN Step(s, Throw("openGrid with no open page", Undefined))
    ELSE IF ~pageOk THEN Step(s, Throw("page.close", Undefined))
    ELSE LET s1 == [s EXCEPT !.browser.pages[s.page.v].state = "closed",
                             !.page = Null]
         IN  IF s1.context = Null THEN Step(BaseCloseSessionOn(s1), Return(Undefined))
             ELSE IF ~contextOk THEN Step(s1, Throw("context.close", Undefined))
             ELSE Step(BaseCloseSessionOn(
                          [s1 EXCEPT !.browser = ClosedContext(@, s1.context.v),
                                     !.context = Null]),
                       Return(Undefined))

\* credentials.username
Username == "ana"

\* the URL of the page after the form is submitted, as its pieces
LoginUrl == <<"http://localhost", "/login">>
MenuUrl  == <<"http://localhost", "/menu">>

\* what the page shows during a browser login: whether it answers at all, its
\* URL, the text of its first .error-message element and the text of its
\* #active-user element (Absent when there is no such element, Null when
\* the element holds no text)
Absent == [t |-> "absent"]
LoginScenarios ==
    {[answers |-> FALSE, url |-> LoginUrl, error |-> Absent, activeUser |-> Absent]}
    \cup {[answers |-> TRUE, url |-> LoginUrl, error |-> e, activeUser |-> Absent] :
            e \in {Absent, Null, Str(""), Str("bad user")}}
    \cup {[answers |-> TRUE, url |-> MenuUrl, error |-> Absent, activeUser |-> a] :
            a \in {Absent, Null, Str(Username), Str("eva")}}

\* Includes looking for sub at the start of s only
Includes_Prefix(s, sub) == Len(sub) <= Len(s) /\ SubSeq(s, 1, Len(sub)) = sub

\* s.includes(sub) on strings given as their pieces
Includes(s, sub) ==
    \E i \in 0..(Len(s) - Len(sub)) : SubSeq(s, i + 1, i + Len(sub)) = sub

\* currentUrl.includes(expectedPath)
BrowserLoginMatches(currentUrl, expectedPath) == Includes(currentUrl, expectedPath)

\* await errorElement.textContent() || 'Login failed'
ErrorTextOr(text) == IF text \in {Null, Str("")} THEN Str("Login failed") ELSE text

\* LoginOnPage returning null as soon as the URL matches
LoginOnPage_NoActiveUser(returnErrorMessage, shown) ==
    IF ~shown.answers THEN Throw("page timeout", Undefined)
    ELSE IF ~BrowserLoginMatches(shown.url, SuccessRedirect)
    THEN IF returnErrorMessage
         THEN IF shown.error = Absent THEN Throw("locator timeout", Undefined)
              ELSE Return(ErrorTextOr(shown.error))
         ELSE Throw("Login failed. Current URL", Undefined)
    ELSE Return(Null)

\* BrowserEmulatedSession.login() once the page is there
LoginOnPage(returnErrorMessage, shown) ==
    IF ~shown.answers THEN Throw("page timeout", Undefined)
    ELSE IF ~BrowserLoginMatches(shown.url, SuccessRedirect)
    THEN IF returnErrorMessage
         THEN IF shown.error = Absent THEN Throw("locator timeout", Undefined)
              ELSE Return(ErrorTextOr(shown.error))
         ELSE Throw("Login failed. Current URL", Undefined)
    ELSE IF shown.activeUser = Absent THEN Throw("waitForSelector timeout", Undefined)
    ELSE IF shown.activeUser # Str(Username) THEN Throw("discrepances", Undefined)
    ELSE Return(Null)

\* BrowserEmulatedSession.login(credentials, opts)
BrowserLoginOn(s, returnErrorMessage, contextOk, pageOk, scenario) ==
    LET init == InitSessionOn(s, contextOk, pageOk) IN
    IF init.out.kind = "throw" THEN init
    ELSE IF PageGetterThrows(init.s)
    THEN Step(init.s, Throw("openGrid with no open page", Undefined))
    ELSE [Step(init.s, LoginOnPage(returnErrorMessage, scenario)) EXCEPT !.shown = scenario]

\* a browser operation has run: its effect on the fields and its outcome
BrowserStep(op, returnErrorMessage, r) ==
    /\ page' = r.s.page
    /\ context' = r.s.context
    /\ browser' = r.s.browser
    /\ config' = r.s.config
    /\ calls' = Append(calls,
          Ended([NewCall(op, returnErrorMessage, "done", <<>>) EXCEPT !.shown = r.shown],
                r.out))
    /\ UNCHANGED <<mode, cookies, lastSetCookie, pureVars>>

InitSession ==
    /\ mode = "browser"
    /\ CanCall
    /\ \E contextOk, pageOk \in BOOLEAN :
          BrowserStep("initSession", FALSE, InitSessionOn(Fields, contextOk, pageOk))

BrowserLogin ==
    /\ mode = "browser"
    /\ CanCall
    /\ \E rem, contextOk, pageOk \in BOOLEAN, scenario \in LoginScenarios :
          BrowserStep("login", rem, BrowserLoginOn(Fields, rem, contextOk, pageOk, scenario))

BrowserCloseSession ==
    /\ mode = "browser"
    /\ CanCall
    /\ \E pageOk, contextOk \in BOOLEAN :
          BrowserStep("closeSession", FALSE, CloseSessionOn(Fields, pageOk, contextOk))

(***************************************************************************)
(* Saving and reading back one row: saveRecord and tableDataTest of both   *)
(* sessions on the table "people".  The backend and the grid page it       *)
(* serves are not part of the program: the backend is a store of rows that *)
(* keeps what it is sent, and the grid shows the stored rows, one cell per *)
(* column, and saves what is typed into a row.                             *)
(***************************************************************************)
MaxStored == 1

RtTable == "people"
RtColumns == {"id", "name", "active"}

\* the kinds a description declares for the columns: the key is a string or
\* a number, the name a string, the flag a boolean
Descriptions ==
    {[id |-> k, name |-> "string", active |-> "boolean"] : k \in {"string", "number"}}

\* the values of a kind
ValuesOf(kind) ==
    CASE kind = "string"  -> {Str("5"), Str("6"), Str("x"), Str("y")}
      [] kind = "number"  -> {Num(5), Num(6)}
      [] kind = "boolean" -> {Bool(TRUE), Bool(FALSE)}

\* every value that travels between the session and the backend
WireValues ==
    UNION {ValuesOf(k) : k \in {"string", "number", "boolean"}}
        \cup {Null, Undefined, Str("7"), Num(7)}
        \cup {Arr(<<v>>) : v \in {Str("5"), Str("6"), Str("7"), Num(5), Num(6),
                                  Num(7), Undefined}}

\* JSON4all.parse of the encoding of one of the values above
JSON4allParseValue(s) == CHOOSE v \in WireValues : JSON4allStringify(v) = s

\* the key the backend gives to a row that is inserted without one
GeneratedId(description) ==
    IF "id" \in DOMAIN description /\ description.id = "number" THEN Num(7) ELSE Str("7")

\* the signature the backend and the grid compute for a stored row
SignatureOf(stored) == JSON4allStringify(Arr(<<stored.id>>))

\* the stored row a signature names, or 0
Position(table, signature) ==
    IF \E i \in DOMAIN table : SignatureOf(table[i]) = signature
    THEN CHOOSE i \in DOMAIN table : SignatureOf(table[i]) = signature
    ELSE 0

\* a stored row with the columns of newRow replaced
Overlay(stored, newRow) ==
    [c \in RtColumns |-> IF Get(newRow, c) = Undefined THEN stored[c] ELSE Get(newRow, c)]

\* the backend serves /table_record_save: the table it holds afterwards and
\* the result it answers, or the error
TableRecordSave(table, description, signature, newRow, status) ==
    IF status = "new"
    THEN LET blank == [c \in RtColumns |->
                          IF c = "id" THEN GeneratedId(description) ELSE Null]
             row == Overlay(blank, newRow)
         IN  IF Position(table, SignatureOf(row)) # 0
             THEN [table |-> table, result |-> Throw("duplicate key", Str("23505"))]
             ELSE [table |-> Append(table, row),
                   result |-> Return([command |-> Str("INSERT"), row |-> row])]
    ELSE LET i == Position(table, signature)
         IN  IF i = 0
             THEN [table |-> table, result |-> Throw("row not found", Str("54011"))]
             ELSE LET row == Overlay(table[i], newRow)
                  IN  [table |-> [table EXCEPT ![i] = row],
                       result |-> Return([command |-> Str("UPDATE"), row |-> row])]

\* the row the backend decodes from the newRow field of the form
DecodedRow(rowToSave) ==
    [i \in DOMAIN rowToSave |->
        <<rowToSave[i][1], JSON4allParseValue(JSON4allStringify(rowToSave[i][2]))>>]

\* guarantee(description, row): the row when each column holds a value of
\* the kind declared for it
Guarantee(description, row) ==
    IF \A c \in DOMAIN description : row[c].t = description[c]
    THEN Return(row)
    ELSE Throw("guarantee", Undefined)

\* SaveRecordOutcome accepting every command
SaveRecordOutcome_AnyCommand(description, result) == Guarantee(description, result.row)

\* EmulatedSession.saveRecord once the request has returned result: the row
\* is validated, then the command is
SaveRecordOutcome(description, result) ==
    LET row == Guarantee(description, result.row)
    IN  IF row.kind = "throw" THEN row
        ELSE IF result.command \notin {Str("INSERT"), Str("UPDATE")}
        THEN Throw("discrepances", Undefined)
        ELSE row

\* EmulatedSession.saveRecord once /table_record_save has answered served:
\* the table afterwards and the outcome
SaveRecordServed(served, description) ==
    IF served.result.kind = "throw"
    THEN [table |-> served.table, out |-> served.result]
    ELSE [table |-> served.table,
          out |-> SaveRecordOutcome(description, served.result.value)]

\* EmulatedSession.saveRecord: the table afterwards and the outcome
HttpSaveRecord(table, description, rowToSave, status, primaryKeyValues) ==
    LET sig == GetJsonPkValuesResult(RtTable, rowToSave, primaryKeyValues)
    IN  IF sig.kind = "throw" THEN [table |-> table, out |-> sig]
        ELSE SaveRecordServed(TableRecordSave(table, description, sig.value.v,
                                              DecodedRow(rowToSave), status),
                              description)

\* EmulatedSession.tableDataTest with compare 'all' and no fixed fields: the
\* rows read and the outcome
HttpTableDataTest(table, rows) ==
    [obtained |-> table, out |-> CompareRowsResult(table, rows, "all")]

\* keystrokeStringOfrow(value)
KeystrokeStringOfrow(value) ==
    CASE value.t = "boolean" -> IF value.v THEN "Y" ELSE "N"
      [] value.t = "number"  -> ToString(value.v)
      [] OTHER               -> value.v

\* description[name] of a description that declares no field `name`
Undeclared == "undefined"

\* TypeOf taking a field that is not declared for a string
TypeOf_String(description, name) ==
    IF name \in DOMAIN description THEN description[name] ELSE "string"

\* description[name]: the key the description of the field is made of
TypeOf(description, name) ==
    IF name \in DOMAIN description THEN description[name] ELSE Undeclared

\* this.booleanRepresentation
BooleanRepresentation ==
    [t \in {"no", "yes", "si", "sí", "Sí", "Si"} |-> t # "no"]

\* ValueFromVisualRepresentation reading a text under a nullable or optional
\* type as a string
ValueFromVisualRepresentation_Unwraps(representation, type) ==
    IF representation = Null
    THEN IF type \in {"nullable", "optional"}
         THEN Return(Null)
         ELSE Throw("valueFromVisualRepresentation error NUUL IS not a " \o type,
                    Undefined)
    ELSE IF type \in {"string", "nullable", "optional"} THEN Return(representation)
    ELSE IF type = "boolean"
    THEN Return(IF representation.v \in DOMAIN BooleanRepresentation
                THEN Bool(BooleanRepresentation[representation.v])
                ELSE Undefined)
    ELSE Throw("valueFromVisualRepresentation error " \o representation.v
                  \o " not a " \o type, Undefined)

\* ValueFromVisualRepresentation taking every type for one that allows null
ValueFromVisualRepresentation_NullForAll(representation, type) ==
    IF representation = Null THEN Return(Null)
    ELSE IF type = "string" THEN Return(representation)
    ELSE Throw("valueFromVisualRepresentation error " \o representation.v
                  \o " not a " \o type, Undefined)

\* valueFromVisualRepresentation(representation, type): representation is
\* null or a text, type the key the description of the field is made of
ValueFromVisualRepresentation(representation, type) ==
    IF type = Undeclared
    THEN \* 'nullable' in undefined, 'string' in undefined
         Throw("TypeError: Cannot use 'in' operator to search for '"
                   \o (IF representation = Null THEN "nullable" ELSE "string")
                   \o "' in undefined", Undefined)
    ELSE IF representation = Null
    THEN IF type \in {"nullable", "optional"}
         THEN Return(Null)
         ELSE Throw("valueFromVisualRepresentation error NUUL IS not a " \o type,
                    Undefined)
    ELSE IF type = "string" THEN Return(representation)
    ELSE IF type = "boolean"
    THEN Return(IF representation.v \in DOMAIN BooleanRepresentation
                THEN Bool(BooleanRepresentation[representation.v])
                ELSE Undefined)
    ELSE Throw("valueFromVisualRepresentation error " \o representation.v
                  \o " not a " \o type, Undefined)

\* the text the grid shows in the cell of a stored value: none for null
TextContent(value) ==
    CASE value.t = "null"    -> Null
      [] value.t = "boolean" -> Str(IF value.v THEN "Sí" ELSE "no")
      [] value.t = "number"  -> Str(ToString(value.v))
      [] OTHER               -> value

\* the value the grid saves for the text typed into a cell of a column
TypedValue(text, kind) ==
    CASE kind = "boolean" -> Bool(text = "Y")
      [] kind = "number"  ->
            CHOOSE v \in {Num(n) : n \in 0..9} : ToString(v.v) = text
      [] OTHER            -> Str(text)

\* the row the grid saves for the keystrokes of rowToSave
TypedRow(description, rowToSave) ==
    [i \in DOMAIN rowToSave |->
        <<rowToSave[i][1],
          TypedValue(KeystrokeStringOfrow(rowToSave[i][2]),
                     TypeOf(description, rowToSave[i][1]))>>]

\* the first failure among outcomes, or 0
FirstThrow(outs) ==
    IF \E i \in DOMAIN outs : outs[i].kind = "throw"
    THEN CHOOSE i \in DOMAIN outs :
            outs[i].kind = "throw" /\ \A j \in 1..(i - 1) : outs[j].kind # "throw"
    ELSE 0

\* GetFieldData reading every cell of the row
GetFieldData_AllColumns(description, names, shown) ==
    LET touched == [c \in DOMAIN shown |->
                      ValueFromVisualRepresentation(TextContent(shown[c]), description[c])]
    IN  IF \E c \in DOMAIN shown : touched[c].kind = "throw"
        THEN touched[CHOOSE c \in DOMAIN shown : touched[c].kind = "throw"]
        ELSE Return([c \in DOMAIN shown |-> touched[c].value])

\* getFieldData(target, pairsNameElement): names are the columns of the cells,
\* shown is the stored row the cells show
GetFieldData(description, names, shown) ==
    LET touched == [i \in DOMAIN names |->
                      ValueFromVisualRepresentation(TextContent(shown[names[i]]),
                                                    TypeOf(description, names[i]))]
        failed == FirstThrow(touched)
    IN  IF failed # 0 THEN touched[failed]
        ELSE Return([c \in {names[i] : i \in DOMAIN names} |->
                        touched[CHOOSE i \in DOMAIN names : names[i] = c].value])

\* a selector wait that ends in its time-out
TimeoutError == Throw("Timeout exceeded", Undefined)

\* BrowserEmulatedSession.saveRecord on an open page: the table afterwards
\* and the outcome
BrowserSaveRecord(table, description, rowToSave, status, primaryKeyValues) ==
    LET JsonPk == IF status = "new" THEN Return(Str(""))
                  ELSE GetJsonPkValuesResult(RtTable, rowToSave, primaryKeyValues)
    IN  IF JsonPk.kind = "throw" THEN [table |-> table, out |-> JsonPk]
        ELSE IF status # "new" /\ Position(table, JsonPk.value.v) = 0
        THEN [table |-> table, out |-> TimeoutError]
        ELSE LET served == TableRecordSave(table, description, JsonPk.value.v,
                                           TypedRow(description, rowToSave), status)
             IN  IF served.result.kind = "throw"
                 THEN [table |-> served.table, out |-> TimeoutError]
                 ELSE [table |-> served.table,
                       out |-> GetFieldData(description, Keys(rowToSave),
                                            served.result.value.row)]

\* getAllVisibleRowsFromGrid and BrowserEmulatedSession.tableDataTest with
\* compare 'all' and no fixed fields: the rows read and the outcome
BrowserTableDataTest(table, description, rows, columnNames) ==
    LET read == [i \in DOMAIN table |-> GetFieldData(description, columnNames, table[i])]
        failed == FirstThrow(read)
        response == [i \in DOMAIN table |-> read[i].value]
    IN  IF failed # 0 THEN [obtained |-> <<>>, out |-> read[failed]]
        ELSE [obtained |-> response, out |-> CompareRowsResult(response, rows, "all")]

\* the values a row may hold in a column
ValuesIn(description, c) ==
    CASE c = "id"   -> ValuesOf(description.id) \cap {Str("5"), Str("6"), Num(5), Num(6)}
      [] c = "name" -> {Str("x"), Str("y")}
      [] OTHER      -> ValuesOf(description[c])

\* the rows a table may hold before the first call
StoredRows(description) ==
    {[id |-> i, name |-> Str("x"), active |-> Bool(TRUE)] :
        i \in ValuesIn(description, "id")}

StoredTables(description) ==
    {t \in UNION {[1..n -> StoredRows(description)] : n \in 0..MaxStored} :
        \A i, j \in DOMAIN t : t[i].id = t[j].id => i = j}

\* the rows over the columns ks, of the declared kinds, in every key order
RowsOver(description, ks) ==
    {[i \in DOMAIN o |-> <<o[i], val[o[i]]>>] :
        <<o, val>> \in KeyOrders(ks) \X
            {v \in [ks -> WireValues] :
                \A k \in ks : v[k] \in ValuesIn(description, k)}}

\* the rows saved as new name every column but, at will, the key
FirstRows(description) ==
    RowsOver(description, RtColumns) \cup RowsOver(description, {"name", "active"})

\* the rows saved as update name some columns other than the key
UpdateRows(description) ==
    RowsOver(description, {"name"}) \cup RowsOver(description, {"active"})
        \cup RowsOver(description, {"name", "active"})

\* {...first, ...update} as the row tableDataTest expects
Merged(first, update) ==
    [c \in {Keys(first)[i] : i \in DOMAIN first} \cup {Keys(update)[i] : i \in DOMAIN update}
        |-> IF Get(update, c) = Undefined THEN Get(first, c) ELSE Get(update, c)]

\* the columns of {...first, ...update} in their iteration order
MergedKeys(first, update) ==
    Keys(first) \o SelectSeq(Keys(update), LAMBDA c : Get(first, c) = Undefined)

\* primaryKey.map(f => result[f]) of the row a saveRecord returned
PrimaryKeyValuesOf(result) ==
    Arr([i \in DOMAIN TableStructures[RtTable].primaryKey |->
            LET f == TableStructures[RtTable].primaryKey[i]
            IN  IF f \in DOMAIN result THEN result[f] ELSE Undefined])

RoundTripInit ==
    /\ rtMode \in {"http", "browser"}
    /\ rtDescription \in Descriptions
    /\ rtBefore \in StoredTables(rtDescription)
    /\ rtStored = rtBefore
    /\ rtRows \in FirstRows(rtDescription) \X UpdateRows(rtDescription)
    /\ rtOut = <<>>
    /\ rtObtained = <<>>

RoundTripIdle ==
    /\ rtMode = "none"
    /\ rtDescription = <<>>
    /\ rtBefore = <<>>
    /\ rtStored = <<>>
    /\ rtRows = <<>>
    /\ rtOut = <<>>
    /\ rtObtained = <<>>

\* every call made so far returned
AllReturned == \A i \in DOMAIN rtOut : rtOut[i].kind = "return"

SaveRecordOn(table, rowToSave, status, primaryKeyValues) ==
    IF rtMode = "http"
    THEN HttpSaveRecord(table, rtDescription, rowToSave, status, primaryKeyValues)
    ELSE BrowserSaveRecord(table, rtDescription, rowToSave, status, primaryKeyValues)

\* saveRecord(target, first, 'new')
SaveNew ==
    /\ rtMode # "none"
    /\ Len(rtOut) = 0
    /\ LET r == SaveRecordOn(rtStored, rtRows[1], "new", Undefined)
       IN  /\ rtStored' = r.table
           /\ rtOut' = <<r.out>>
    /\ UNCHANGED <<rtMode, rtDescription, rtBefore, rtRows, rtObtained>>
    /\ UNCHANGED <<parseVars, rowsVars, pkVars, sessVars, fnVars, tsVars, wtVars, opVars, stVars, bmVars>>

\* saveRecord(target, update, 'update', the key of the row the first call returned)
SaveUpdate ==
    /\ Len(rtOut) = 1
    /\ AllReturned
    /\ LET r == SaveRecordOn(rtStored, rtRows[2], "update",
                             PrimaryKeyValuesOf(rtOut[1].value))
       IN  /\ rtStored' = r.table
           /\ rtOut' = Append(rtOut, r.out)
    /\ UNCHANGED <<rtMode, rtDescription, rtBefore, rtRows, rtObtained>>
    /\ UNCHANGED <<parseVars, rowsVars, pkVars, sessVars, fnVars, tsVars, wtVars, opVars, stVars, bmVars>>

\* tableDataTest(target, [{...first, ...update}], 'all')
TableDataTest ==
    /\ Len(rtOut) = 2
    /\ AllReturned
    /\ LET rows == <<Merged(rtRows[1], rtRows[2])>>
           r == IF rtMode = "http"
                THEN HttpTableDataTest(rtStored, rows)
                ELSE BrowserTableDataTest(rtStored, rtDescription, rows,
                                          MergedKeys(rtRows[1], rtRows[2]))
       IN  /\ rtObtained' = r.obtained
           /\ rtOut' = Append(rtOut, r.out)
    /\ UNCHANGED <<rtMode, rtDescription, rtBefore, rtRows, rtStored>>
    /\ UNCHANGED <<parseVars, rowsVars, pkVars, sessVars, fnVars, tsVars, wtVars, opVars, stVars, bmVars>>

RoundTripNext ==
    \/ SaveNew
    \/ SaveUpdate
    \/ TableDataTest

(***************************************************************************)
(* Functions called once: saveRecord on a backend that answers a given     *)
(* command, expectError, and the decision login takes on a URL.            *)
(***************************************************************************)
MaxUrl == 4

\* the command field of an answer: a string, null, or missing
Commands ==
    {Str("INSERT"), Str("UPDATE"), Str("insert"), Str("DELETE"), Str(""), Null, Undefined}

\* the backend of TableRecordSave answering the command given
AnswersCommand(command, table, description, signature, newRow, status) ==
    LET served == TableRecordSave(table, description, signature, newRow, status)
    IN  IF served.result.kind = "throw" THEN served
        ELSE [served EXCEPT !.result.value.command = command]

\* the row a table holds when the row to save is saved as an update
StoredFor(rowToSave) ==
    [c \in RtColumns |-> IF c = "id" THEN Get(rowToSave, c) ELSE Null]

SaveRecordArgs ==
    {[status |-> st, command |-> cmd, description |-> d, rowToSave |-> row] :
        st \in {"new", "update"}, cmd \in Commands,
        <<d, row>> \in UNION {{<<dd, r>> : r \in RowsOver(dd, RtColumns)} :
                                dd \in Descriptions}}

\* expected(err).code of the error an action fails with: a string or none
ErrorCodes == {Str("A"), Str("B"), Undefined}

\* an action given to expectError: whether it returns a promise, and whether
\* it (or its promise) fails, and with what code
Actions ==
    {[promise |-> p, fails |-> FALSE, code |-> Undefined] : p \in BOOLEAN}
    \cup {[promise |-> p, fails |-> TRUE, code |-> c] : p \in BOOLEAN, c \in ErrorCodes}

ExpectErrorArgs == {[action |-> a, check |-> c] : a \in Actions, c \in {"A", "B"}}

\* itDidntFail(): it sets allOk and throws
ItDidntFail == [allOk |-> TRUE, err |-> Throw("serial-tester: itDidntFail", Undefined)]

\* CheckExpected never comparing the code
CheckExpected_AnyCode(allOk, err, check) ==
    IF allOk THEN Throw("expectError -> not ERROR!", Undefined)
    ELSE Return(Undefined)

\* checkExpected(err), with the allOk it reads
CheckExpected(allOk, err, check) ==
    IF allOk THEN Throw("expectError -> not ERROR!", Undefined)
    ELSE IF err.code # Str(check) THEN err
    ELSE Return(Undefined)

\* expectError(action, check): what it throws or returns, or how the promise
\* it returns settles
ExpectError(action, check) ==
    IF action.promise
    THEN \* result.then(itDidntFail).catch(checkExpected)
         IF action.fails
         THEN CheckExpected(FALSE, Throw("action", action.code), check)
         ELSE CheckExpected(ItDidntFail.allOk, ItDidntFail.err, check)
    ELSE IF action.fails
    THEN \* catch (err) { checkExpected(err) }
         CheckExpected(FALSE, Throw("action", action.code), check)
    ELSE \* return itDidntFail(), inside the try
         CheckExpected(ItDidntFail.allOk, ItDidntFail.err, check)

\* the characters URLs and paths are written with
UrlChars == {".", "/", "m"}

Urls == UNION {[1..n -> UrlChars] : n \in 0..MaxUrl}

\* the success paths a backend may configure
SuccessPaths == {<<"/", "m">>, <<"/">>, <<"m">>}

LoginDecisionArgs == {[value |-> v, successRedirect |-> sp] : v \in Urls, sp \in SuccessPaths}

\* the texts a cell may show, or null for none
Representations ==
    {Null} \cup {Str(t) : t \in {"no", "yes", "si", "sí", "Sí", "Si", "SI", "No",
                                 "Y", "N", "true", "", "x"}}

\* the key a field's description is made of
TypeKeys == {"string", "boolean", "number", "nullable", "optional"}

VisualArgs == {[representation |-> r, type |-> t] : r \in Representations, t \in TypeKeys}

\* the elements of a set in one order
InOrder(S) == CHOOSE q \in [1..Cardinality(S) -> S] : {q[i] : i \in DOMAIN q} = S

\* tableDataTest, rows.map(row => ...): the rows without the fixed fields,
\* each checked to be the fixed value, or the failure of the first that is not
WithoutFixedFields(rows, fixedFields) ==
    LET ok(row, name) == name \in DOMAIN row /\ row[name] = Get(fixedFields, name)
        bad == {i \in DOMAIN rows : \E j \in DOMAIN fixedFields :
                                        ~ok(rows[i], fixedFields[j][1])}
    IN  IF bad # {}
        THEN LET row == rows[CHOOSE i \in bad : \A k \in bad : i <= k]
                 j == CHOOSE j \in DOMAIN fixedFields :
                        /\ ~ok(row, fixedFields[j][1])
                        /\ \A k \in 1..(j - 1) : ok(row, fixedFields[k][1])
             IN  Throw("Error in fixedFields in tableDataTest doesn't match the rows in "
                           \o fixedFields[j][1] \o " field", Undefined)
        ELSE Return([i \in DOMAIN rows |->
                        [k \in DOMAIN rows[i] \ {fixedFields[j][1] : j \in DOMAIN fixedFields}
                            |-> rows[i][k]]])

\* tableDataTest, for (const row of response): each row read, with the fixed
\* value in every fixed field it has no value of
WithFixedFields(response, fixedFields) ==
    [i \in DOMAIN response |->
        [k \in DOMAIN response[i] \cup {fixedFields[j][1] : j \in DOMAIN fixedFields} |->
            IF k \in DOMAIN response[i] /\ response[i][k] \notin {Null, Undefined}
            THEN response[i][k]
            ELSE Get(fixedFields, k)]]

\* the rows of the table the grid shows when opened with the fixed fields as
\* its filter
ShownWith(table, fixedFields) ==
    SelectSeq(table, LAMBDA row : \A j \in DOMAIN fixedFields :
                                     row[fixedFields[j][1]] = fixedFields[j][2])

\* BrowserEmulatedSession.tableDataTest with compare 'all' and fixed fields
\* given as a record: the rows compared, if it comes to that, and the outcome
BrowserTableDataTestFixed(table, description, rows, fixedFields) ==
    LET stripped == WithoutFixedFields(rows, fixedFields)
    IN  IF stripped.kind = "throw"
        THEN [compared |-> FALSE, expected |-> <<>>, obtained |-> <<>>, out |-> stripped]
        ELSE LET expected == stripped.value
                 columnNames == IF Len(expected) > 0 THEN InOrder(DOMAIN expected[1])
                                ELSE <<>>
                 shown == ShownWith(table, fixedFields)
                 read == [i \in DOMAIN shown |->
                            GetFieldData(description, columnNames, shown[i])]
                 failed == FirstThrow(read)
                 response == WithFixedFields([i \in DOMAIN shown |-> read[i].value],
                                             fixedFields)
             IN  IF failed # 0
                 THEN [compared |-> FALSE, expected |-> expected, obtained |-> <<>>,
                       out |-> read[failed]]
                 ELSE [compared |-> TRUE, expected |-> expected, obtained |-> response,
                       out |-> CompareRowsResult(response, expected, "all")]

\* RowsAfterFixedFields for a map that works on copies of the rows
RowsAfterFixedFields_Copies(rows, fixedFields) == rows

\* tableDataTest, rows.map(row => ...; delete row[name]; ...): the row objects
\* of the caller once the map has run to its end or to its failure
RowsAfterFixedFields(rows, fixedFields) ==
    LET ok(row, name) == name \in DOMAIN row /\ row[name] = Get(fixedFields, name)
        passed(row) == {j \in DOMAIN fixedFields :
                           \A k \in 1..j : ok(row, fixedFields[k][1])}
        reached == {i \in DOMAIN rows :
                       \A h \in 1..(i - 1) : passed(rows[h]) = DOMAIN fixedFields}
    IN  [i \in DOMAIN rows |->
            [k \in DOMAIN rows[i] \
                    (IF i \in reached
                     THEN {fixedFields[j][1] : j \in passed(rows[i])}
                     ELSE {}) |-> rows[i][k]]]

\* two calls of tableDataTest with the same row objects: the outcome of each
\* and the rows as the first call leaves them
BrowserTableDataTestTwice(table, description, rows, fixedFields) ==
    LET after == RowsAfterFixedFields(rows, fixedFields)
    IN  [first  |-> BrowserTableDataTestFixed(table, description, rows, fixedFields).out,
         rows   |-> after,
         second |-> BrowserTableDataTestFixed(table, description, after, fixedFields).out]

\* the fixed fields given as a record
FixedFieldsOf(description) ==
    RowsOver(description, {"name"}) \cup RowsOver(description, {"active"})
        \cup RowsOver(description, {"name", "active"})

\* the rows a test expects: stored rows, whole or without the flag
ExpectedRows(description) ==
    StoredRows(description)
        \cup {[k \in {"id", "name"} |-> r[k]] : r \in StoredRows(description)}

FixedFieldsArgs ==
    UNION {{[description |-> d, table |-> t, rows |-> rows, fixedFields |-> ff] :
                t \in StoredTables(d),
                rows \in UNION {[1..n -> ExpectedRows(d)] : n \in 0..MaxStored},
                ff \in FixedFieldsOf(d)} :
           d \in Descriptions}

FunctionInit ==
    /\ fnName \in {"saveRecord", "expectError", "loginDecision",
                   "valueFromVisualRepresentation", "tableDataTest",
                   "tableDataTestTwice"}
    /\ fnArgs \in CASE fnName = "saveRecord"  -> SaveRecordArgs
                    [] fnName = "expectError" -> ExpectErrorArgs
                    [] fnName = "valueFromVisualRepresentation" -> VisualArgs
                    [] fnName = "tableDataTest" -> FixedFieldsArgs
                    [] fnName = "tableDataTestTwice" -> FixedFieldsArgs
                    [] OTHER                  -> LoginDecisionArgs
    /\ fnOut = NoOutcome

FunctionIdle ==
    /\ fnName = "none"
    /\ fnArgs = <<>>
    /\ fnOut = NoOutcome

\* saveRecord(target, rowToSave, status) of an HTTP session
CallSaveRecord ==
    /\ fnName = "saveRecord"
    /\ fnOut = NoOutcome
    /\ LET sig    == GetJsonPkValuesResult(RtTable, fnArgs.rowToSave, Undefined)
           stored == IF fnArgs.status = "new" THEN <<>>
                     ELSE <<StoredFor(fnArgs.rowToSave)>>
       IN  fnOut' = IF sig.kind = "throw" THEN sig
                    ELSE SaveRecordServed(
                             AnswersCommand(fnArgs.command, stored, fnArgs.description,
                                            sig.value.v, DecodedRow(fnArgs.rowToSave),
                                            fnArgs.status),
                             fnArgs.description).out
    /\ UNCHANGED <<fnName, fnArgs, parseVars, rowsVars, pkVars, sessVars, rtVars, tsVars,
                   wtVars, opVars, stVars, bmVars>>

\* expectError(action, check)
CallExpectError ==
    /\ fnName = "expectError"
    /\ fnOut = NoOutcome
    /\ fnOut' = ExpectError(fnArgs.action, fnArgs.check)
    /\ UNCHANGED <<fnName, fnArgs, parseVars, rowsVars, pkVars, sessVars, rtVars, tsVars,
                   wtVars, opVars, stVars, bmVars>>

\* the decision each login takes on the value: whether it is a success
CallLoginDecision ==
    /\ fnName = "loginDecision"
    /\ fnOut = NoOutcome
    /\ fnOut' = Return([http |-> HttpLoginMatches(Str(fnArgs.value), fnArgs.successRedirect),
                        browser |-> BrowserLoginMatches(fnArgs.value,
                                                        fnArgs.successRedirect)])
    /\ UNCHANGED <<fnName, fnArgs, parseVars, rowsVars, pkVars, sessVars, rtVars, tsVars,
                   wtVars, opVars, stVars, bmVars>>

\* valueFromVisualRepresentation(representation, type)
CallValueFromVisualRepresentation ==
    /\ fnName = "valueFromVisualRepresentation"
    /\ fnOut = NoOutcome
    /\ fnOut' = ValueFromVisualRepresentation(fnArgs.representation, fnArgs.type)
    /\ UNCHANGED <<fnName, fnArgs, parseVars, rowsVars, pkVars, sessVars, rtVars, tsVars,
                   wtVars, opVars, stVars, bmVars>>

\* tableDataTest(target, rows, 'all', {fixedFields}) of a browser session
CallTableDataTest ==
    /\ fnName = "tableDataTest"
    /\ fnOut = NoOutcome
    /\ fnOut' = BrowserTableDataTestFixed(fnArgs.table, fnArgs.description, fnArgs.rows,
                                          fnArgs.fixedFields)
    /\ UNCHANGED <<fnName, fnArgs, parseVars, rowsVars, pkVars, sessVars, rtVars, tsVars,
                   wtVars, opVars, stVars, bmVars>>

\* tableDataTest(target, rows, 'all', {fixedFields}) of a browser session,
\* called twice with the same rows
CallTableDataTestTwice ==
    /\ fnName = "tableDataTestTwice"
    /\ fnOut = NoOutcome
    /\ fnOut' = BrowserTableDataTestTwice(fnArgs.table, fnArgs.description, fnArgs.rows,
                                          fnArgs.fixedFields)
    /\ UNCHANGED <<fnName, fnArgs, parseVars, rowsVars, pkVars, sessVars, rtVars, tsVars,
                   wtVars, opVars, stVars, bmVars>>

FunctionNext ==
    \/ CallSaveRecord
    \/ CallExpectError
    \/ CallLoginDecision
    \/ CallValueFromVisualRepresentation
    \/ CallTableDataTest
    \/ CallTableDataTestTwice

(***************************************************************************)
(* Two sessions made by the createSession of one context: both of one      *)
(* mode, each with its own fields, and, in browser mode, both on the one   *)
(* browser the context started.  An operation of a session takes its steps *)
(* between the steps of the other's.                                       *)
(***************************************************************************)
MaxContexts == 2

SessionIds == {1, 2}

\* the fields of a session as its constructor leaves them
NewSession == [cookies |-> <<>>, config |-> Undefined, page |-> Null, context |-> Null]

TwoSessionsInit ==
    /\ tsMode \in {"http", "browser"}
    /\ ts = [k \in SessionIds |-> NewSession]
    /\ tsBrowser = [contexts |-> <<>>, pages |-> <<>>]
    /\ tsActor = 0

TwoSessionsIdle ==
    /\ tsMode = "none"
    /\ ts = <<>>
    /\ tsBrowser = [contexts |-> <<>>, pages |-> <<>>]
    /\ tsActor = 0

\* the fields a browser operation of session k reads and writes
FieldsOf(k) ==
    [page |-> ts[k].page, context |-> ts[k].context, browser |-> tsBrowser,
     config |-> ts[k].config]

\* a browser operation of session k has run
TsBrowserStep(k, r) ==
    /\ ts' = [ts EXCEPT ![k].page = r.s.page, ![k].context = r.s.context,
                        ![k].config = r.s.config]
    /\ tsBrowser' = r.s.browser
    /\ tsActor' = k
    /\ UNCHANGED <<tsMode, parseVars, rowsVars, pkVars, sessVars, rtVars, fnVars, wtVars, opVars, stVars, bmVars>>

\* a response to a request of session k arrives: fetch captures its cookies
TsFetch ==
    \E k \in SessionIds, resp \in Responses :
        /\ tsMode \in {"http", "browser"}
        /\ ts' = [ts EXCEPT ![k].cookies = Captured(@, resp.setCookie)]
        /\ tsActor' = k
        /\ UNCHANGED <<tsMode, tsBrowser, parseVars, rowsVars, pkVars, sessVars, rtVars,
                       fnVars, wtVars, opVars, stVars, bmVars>>

\* the login of HTTP session k has read the client configuration
TsLoginEnds ==
    \E k \in SessionIds :
        /\ tsMode = "http"
        /\ ts' = [ts EXCEPT ![k].config = JSON4allParse(ConfigText)]
        /\ tsActor' = k
        /\ UNCHANGED <<tsMode, tsBrowser, parseVars, rowsVars, pkVars, sessVars, rtVars,
                       fnVars, wtVars, opVars, stVars, bmVars>>

\* closeSession() of HTTP session k
TsHttpCloseSession ==
    \E k \in SessionIds :
        /\ tsMode = "http"
        /\ ts' = [ts EXCEPT ![k].config = BaseCloseSessionOn(FieldsOf(k)).config]
        /\ tsActor' = k
        /\ UNCHANGED <<tsMode, tsBrowser, parseVars, rowsVars, pkVars, sessVars, rtVars,
                       fnVars, wtVars, opVars, stVars, bmVars>>

\* initSession() of browser session k
TsInitSession ==
    \E k \in SessionIds, contextOk, pageOk \in BOOLEAN :
        /\ tsMode = "browser"
        /\ ts[k].context = Null => Len(tsBrowser.contexts) < MaxContexts
        /\ TsBrowserStep(k, InitSessionOn(FieldsOf(k), contextOk, pageOk))

\* login() of browser session k
TsBrowserLogin ==
    \E k \in SessionIds, rem, pageOk \in BOOLEAN, scenario \in LoginScenarios :
        /\ tsMode = "browser"
        /\ ts[k].context = Null => Len(tsBrowser.contexts) < MaxContexts
        /\ TsBrowserStep(k, BrowserLoginOn(FieldsOf(k), rem, TRUE, pageOk, scenario))

\* closeSession() of browser session k
TsBrowserCloseSession ==
    \E k \in SessionIds, pageOk, contextOk \in BOOLEAN :
        /\ tsMode = "browser"
        /\ TsBrowserStep(k, CloseSessionOn(FieldsOf(k), pageOk, contextOk))

TwoSessionsNext ==
    \/ TsFetch
    \/ TsLoginEnds
    \/ TsHttpCloseSession
    \/ TsInitSession
    \/ TsBrowserLogin
    \/ TsBrowserCloseSession

(***************************************************************************)
(* withTimeout(promise, ms, message): the promise given, or the one the    *)
(* function given returns, raced against a timer.                          *)
(***************************************************************************)
\* how the promise given settles, when it does
PromiseOutcomes ==
    {Return(Str("a")), Return(Null), Return(Undefined),
     Throw("failed", Undefined), Throw("timeout in withTimeout", Undefined)}

WithTimeoutArgs ==
    {[function |-> f, throws |-> th, settled |-> st, outcome |-> o, message |-> m] :
        f \in BOOLEAN, th \in BOOLEAN, st \in BOOLEAN, o \in PromiseOutcomes,
        m \in {Undefined, Null, Str(""), Str("too slow")}}

WithTimeoutInit ==
    /\ wtArgs \in {a \in WithTimeoutArgs :
                        a.throws => a.function /\ ~a.settled /\ a.outcome.kind = "throw"}
    /\ wtPromise = "none"
    /\ wtTimer = "none"
    /\ wtFirst = "none"
    /\ wtOut = NoOutcome

WithTimeoutIdle ==
    /\ wtArgs = <<>>
    /\ wtPromise = "none"
    /\ wtTimer = "none"
    /\ wtFirst = "none"
    /\ wtOut = NoOutcome

\* message ?? 'timeout in withTimeout'
TimeoutMessage(message) ==
    IF message \in {Undefined, Null} THEN "timeout in withTimeout" ELSE message.v

\* Race letting the promise that settles last decide
Race_Last(settled, outcome) == outcome

\* Promise.race: the promise it returned takes the outcome of the first of its
\* promises to settle, and keeps it
Race(settled, outcome) == IF settled = NoOutcome THEN outcome ELSE settled

\* withTimeout(promise, ms, message) is called: the function given is called,
\* the timer is set, and a promise settled already wins the race
CallWithTimeout ==
    /\ wtArgs # <<>>
    /\ wtPromise = "none"
    /\ wtOut = NoOutcome
    /\ IF wtArgs.throws
       THEN /\ wtOut' = wtArgs.outcome
            /\ wtPromise' = "failed"
            /\ wtFirst' = "promise"
            /\ UNCHANGED wtTimer
       ELSE /\ wtTimer' = "running"
            /\ wtPromise' = IF wtArgs.settled THEN "settled" ELSE "pending"
            /\ wtOut' = IF wtArgs.settled THEN Race(wtOut, wtArgs.outcome) ELSE wtOut
            /\ wtFirst' = IF wtArgs.settled THEN "promise" ELSE wtFirst
    /\ UNCHANGED <<wtArgs, parseVars, rowsVars, pkVars, sessVars, rtVars, fnVars, tsVars,
                   opVars, stVars, bmVars>>

\* the promise given settles
PromiseSettles ==
    /\ wtPromise = "pending"
    /\ wtPromise' = "settled"
    /\ wtOut' = Race(wtOut, wtArgs.outcome)
    /\ wtFirst' = IF wtFirst = "none" THEN "promise" ELSE wtFirst
    /\ UNCHANGED <<wtArgs, wtTimer, parseVars, rowsVars, pkVars, sessVars, rtVars, fnVars,
                   tsVars, opVars, stVars, bmVars>>

\* the timer fires: setTimeout(() => reject(new Error(...)), ms)
TimerFires ==
    /\ wtTimer = "running"
    /\ wtTimer' = "fired"
    /\ wtOut' = Race(wtOut, Throw(TimeoutMessage(wtArgs.message), Undefined))
    /\ wtFirst' = IF wtFirst = "none" THEN "timer" ELSE wtFirst
    /\ UNCHANGED <<wtArgs, wtPromise, parseVars, rowsVars, pkVars, sessVars, rtVars, fnVars,
                   tsVars, opVars, stVars, bmVars>>

WithTimeoutNext ==
    \/ CallWithTimeout
    \/ PromiseSettles
    \/ TimerFires

(***************************************************************************)
(* One operation of a session taken await by await.                        *)
(***************************************************************************)
OperationIdle ==
    /\ opArgs = <<>>
    /\ opPc = "none"
    /\ opAt = 0
    /\ opRow = Null
    /\ opElement = Null
    /\ opTouched = <<>>
    /\ opSeen = <<>>
    /\ opTrace = <<>>
    /\ opOut = NoOutcome

\* the variables no operation writes
notOpVars == <<parseVars, rowsVars, pkVars, sessVars, rtVars, fnVars, tsVars, wtVars,
               stVars, bmVars>>

\* an action of the operation on the page or the network
Ev(a, n) == [a |-> a, n |-> n]

\* the error of a wait that ends in its time-out
TimeoutOn(wait) == Throw("Timeout exceeded waiting for " \o wait, Undefined)

\* ---- the row selector ------------------------------------------------------
\* a text as its characters
Chars(q) == [t |-> "chars", v |-> q]

\* the signatures getJsonPkValues may return, with quotes and backslashes
Signatures ==
    {<<"x">>, <<"x", "'">>, <<"\\", "x">>, <<"'", "\\", "\\", "\"">>}

\* value.replace(/from/g, to)
RECURSIVE ReplaceAll(_, _, _)
ReplaceAll(value, from, to) ==
    IF value = <<>> THEN <<>>
    ELSE (IF Head(value) = from THEN to ELSE <<Head(value)>>)
             \o ReplaceAll(Tail(value), from, to)

\* EscapeCss escaping the quotes only
EscapeCss_QuotesOnly(value) ==
    <<"'">> \o ReplaceAll(value, "'", <<"\\", "'">>) \o <<"'">>

\* escapeCss(value)
EscapeCss(value) ==
    <<"'">> \o ReplaceAll(ReplaceAll(value, "\\", <<"\\", "\\">>), "'", <<"\\", "'">>)
            \o <<"'">>

\* the characters a quoted CSS string stands for, from its opening quote on:
\* a backslash makes the next character stand for itself, the quote ends it
RECURSIVE CssStringFrom(_, _)
CssStringFrom(quoted, read) ==
    IF quoted = <<>> THEN [valid |-> FALSE, value |-> read]
    ELSE IF Head(quoted) = "'" THEN [valid |-> Tail(quoted) = <<>>, value |-> read]
    ELSE IF Head(quoted) = "\\"
    THEN IF Tail(quoted) = <<>> THEN [valid |-> FALSE, value |-> read]
         ELSE CssStringFrom(Tail(Tail(quoted)), Append(read, Head(Tail(quoted))))
    ELSE CssStringFrom(Tail(quoted), Append(read, Head(quoted)))

\* the value the selector [pk-values=quoted] asks of the attribute
CssStringValue(quoted) ==
    IF quoted = <<>> \/ Head(quoted) # "'" THEN [valid |-> FALSE, value |-> <<>>]
    ELSE CssStringFrom(Tail(quoted), <<>>)

\* pkSelector: for 'new' the rows without the attribute pk-values, for
\* 'update' the rows whose attribute is the value the quoted string stands for
PkSelector(status, JsonPk) ==
    IF status = "new" THEN [valid |-> TRUE, pk |-> Absent]
    ELSE LET asked == CssStringValue(EscapeCss(JsonPk))
         IN  [valid |-> asked.valid, pk |-> Chars(asked.value)]

\* ---- the grid --------------------------------------------------------------
\* the cells of a row of the grid, in the order of the document
GridColumns == <<"id", "name", "active">>

ColumnIndex(c) == CHOOSE i \in DOMAIN GridColumns : GridColumns[i] = c

\* the value saved in each column
ColumnValue(c) ==
    CASE c = "id" -> Str("5") [] c = "name" -> Str("x") [] OTHER -> Bool(TRUE)

\* rowToSave: any columns of the grid, in any order
SaveRows ==
    {[i \in DOMAIN o |-> <<o[i], ColumnValue(o[i])>>] :
        o \in UNION {KeyOrders(ks) : ks \in SUBSET RtColumns}}

\* AreConsecutives taking every two cells of a row for neighbours
AreConsecutives_SameRow(el1, el2) == el1.row = el2.row

\* areConsecutives(page, el1, el2): el1.nextElementSibling === el2
AreConsecutives(el1, el2) ==
    /\ el1.row = el2.row
    /\ ColumnIndex(el2.col) = ColumnIndex(el1.col) + 1

\* saveRecord, how the cell is entered: Tab from the cell before, or focus
\* and select to the end
EntryMethod(prevInputElement, element) ==
    IF prevInputElement # Null /\ AreConsecutives(prevInputElement, element)
    THEN <<Ev("press", "Tab")>>
    ELSE <<Ev("focus", element.col), Ev("press", "Shift+End")>>

\* CellLookup giving up when the lookup under the row times out
CellLookup_NoFallback(found, name) ==
    IF found = "row" THEN [fails |-> FALSE, events |-> <<Ev("findCell", name)>>]
    ELSE [fails |-> TRUE, events |-> <<Ev("timeout", "cell in row")>>]

\* saveRecord, the lookup of the cell of a column: under the row, and when
\* that times out under the rows of the table the row selector matches
CellLookup(found, name) ==
    IF found = "row" THEN [fails |-> FALSE, events |-> <<Ev("findCell", name)>>]
    ELSE IF found = "table"
    THEN [fails |-> FALSE,
          events |-> <<Ev("timeout", "cell in row"), Ev("findCell", name)>>]
    ELSE [fails |-> TRUE,
          events |-> <<Ev("timeout", "cell in row"), Ev("timeout", "cell in table")>>]

\* FinalKeys pressing nothing
FinalKeys_None == <<>>

\* saveRecord, after the last column: page.keyboard.press("Tab")
FinalKeys == <<Ev("press", "Tab")>>

\* the io-status a cell may have: none, or one of these
IoStatuses == {"none", "ok", "temporal-ok", "saving", "error"}

\* the statuses the wait is meant to end on
TerminalStatuses == {"none", "ok", "temporal-ok"}

\* the element the rows of the grid are children of
RowsParent == "tbody"

\* saveRecord, the selector of the save-status wait of a column, on a table
\* where the cell of the row edited has the status own and the cell of that
\* column in some other row the status other ("norow" when there is none):
\* "> tr<pk> > [col][io-status=temporal-ok], [col][io-status=ok],
\*  [col]:not([io-status])"
StatusMatches(own, other) ==
    \/ RowsParent = "table" /\ own = "temporal-ok"
    \/ "ok" \in {own, other}
    \/ "none" \in {own, other}

\* LoopPc waiting, after the last column, for nothing that happens
LoopPc_Waits(touched, rowToSave) ==
    IF Len(touched) < Len(rowToSave) THEN "cell" ELSE "idle"

\* the place after a column is done: the next column, or the last Tab
LoopPc(touched, rowToSave) ==
    IF Len(touched) < Len(rowToSave) THEN "cell" ELSE "tab"

\* ---- the operations that are a chain of awaits -----------------------------
\* the awaits of the operation on the way it takes
Awaits(args) ==
    CASE args.mode = "http" /\ args.name = "login" ->
            IF args.way \in {"success", "message"}
            THEN <<"fetch POST /login", "fetch GET", "response.text">>
            ELSE <<"fetch POST /login">>
      [] args.mode = "http" /\ args.name = "saveRecord" ->
            <<"fetch POST /table_record_save", "response.text">>
      [] args.mode = "http" /\ args.name = "tableDataTest" ->
            <<"fetch POST /table_data", "response.text">>
      [] args.mode = "browser" /\ args.name = "login" ->
            <<"newContext", "newPage", "goto", "fill", "fill", "click">>
                \o (CASE args.way = "message" -> <<"textContent">>
                      [] args.way = "mismatch" -> <<>>
                      [] OTHER -> <<"waitForSelector #active-user", "textContent">>)
      [] OTHER ->
            <<"goto", "waitForSelector table.my-grid",
              "waitForSelector [all-rows-displayed]", "getAttribute">>
                \o (IF args.way = "more rows" THEN <<"click">> ELSE <<>>)
                \o <<"waitForSelector [all-rows-displayed=yes]", "$$ tbody tr",
                     "waitForSelector [my-colname]", "textContent">>

\* what the operation returns or throws after its last await
EndOf(args) ==
    CASE args.way \in {"success", "all rows", "more rows", "saved"} ->
            Return(IF args.name = "login" THEN Null ELSE Undefined)
      [] args.way = "message" -> Return(Str("bad user"))
      [] OTHER -> Throw(args.way, Undefined)

Ways(sessionMode, name) ==
    CASE name = "login" ->
            {"success", "message", "mismatch"}
                \cup (IF sessionMode = "http" THEN {"not 302"} ELSE {"other user"})
      [] name = "saveRecord" -> {"saved", "backend error"}
      [] OTHER -> IF sessionMode = "http" THEN {"all rows", "rows differ"}
                  ELSE {"all rows", "more rows", "rows differ"}

ChainArgs ==
    {[mode |-> m, name |-> n, way |-> w, status |-> "", rowToSave |-> <<>>,
      JsonPk |-> Undefined] :
        <<m, n, w>> \in UNION {{<<mm, nn, ww>> : ww \in Ways(mm, nn)} :
                                <<mm, nn>> \in ({"http"} \X {"login", "saveRecord",
                                                             "tableDataTest"})
                                    \cup ({"browser"} \X {"login", "tableDataTest"})}}

\* saveRecord of a browser session: getJsonPkValues returns a signature or throws
GridSaveArgs ==
    {[mode |-> "browser", name |-> "saveRecord", way |-> "", status |-> "new",
      rowToSave |-> r, JsonPk |-> Undefined] : r \in SaveRows}
    \cup {[mode |-> "browser", name |-> "saveRecord", way |-> "", status |-> "update",
           rowToSave |-> r, JsonPk |-> j] :
            r \in SaveRows,
            j \in {Return(Chars(q)) : q \in Signatures}
                    \cup {Throw("table not found in server.tableStructures", Undefined)}}

OnGrid == opArgs # <<>> /\ opArgs.mode = "browser" /\ opArgs.name = "saveRecord"

OperationInit ==
    /\ opArgs \in ChainArgs \cup GridSaveArgs
    /\ opPc = IF OnGrid THEN "goto" ELSE "chain"
    /\ opAt = 1
    /\ opRow = Null
    /\ opElement = Null
    /\ opTouched = <<>>
    /\ opSeen = <<>>
    /\ opTrace = <<>>
    /\ opOut = NoOutcome

\* the operation ends in the error err
OpFails(events, err) ==
    /\ opTrace' = opTrace \o events
    /\ opOut' = err
    /\ opPc' = "done"
    /\ UNCHANGED <<opArgs, opAt, opRow, opElement, opTouched, opSeen, notOpVars>>

\* the operation goes on at pc
OpGoes(pc, events) ==
    /\ opTrace' = opTrace \o events
    /\ opPc' = pc
    /\ UNCHANGED <<opArgs, opAt, opOut, notOpVars>>

\* an await of a chain ends well; after the last the operation ends
AwaitCompletes ==
    /\ opPc = "chain"
    /\ opTrace' = Append(opTrace, Ev("await", Awaits(opArgs)[opAt]))
    /\ opAt' = opAt + 1
    /\ IF opAt = Len(Awaits(opArgs))
       THEN opOut' = EndOf(opArgs) /\ opPc' = "done"
       ELSE UNCHANGED <<opOut, opPc>>
    /\ UNCHANGED <<opArgs, opRow, opElement, opTouched, opSeen, notOpVars>>

\* an await of a chain is rejected or times out
AwaitFails ==
    /\ opPc = "chain"
    /\ OpFails(<<Ev("timeout", Awaits(opArgs)[opAt])>>, TimeoutOn(Awaits(opArgs)[opAt]))

\* ---- saveRecord of a browser session ---------------------------------------
\* openGrid: page.goto(url)
GridGoto ==
    /\ opPc = "goto"
    /\ \E ok \in BOOLEAN :
        IF ok THEN /\ OpGoes("grid", <<Ev("goto", "menu#table")>>)
                   /\ UNCHANGED <<opRow, opElement, opTouched, opSeen>>
        ELSE OpFails(<<Ev("goto", "menu#table"), Ev("timeout", "goto")>>,
                     TimeoutOn("goto"))

\* openGrid: page.waitForSelector('table.my-grid')
GridWait ==
    /\ opPc = "grid"
    /\ \E ok \in BOOLEAN :
        IF ok THEN /\ OpGoes("ins", <<Ev("waitGrid", "table.my-grid")>>)
                   /\ UNCHANGED <<opRow, opElement, opTouched, opSeen>>
        ELSE OpFails(<<Ev("timeout", "grid")>>, TimeoutOn("grid"))

\* the wait for the INS button, then for 'new' the click on it and for
\* 'update' the signature and its selector
GridInsButton ==
    /\ opPc = "ins"
    /\ \E ok \in BOOLEAN :
        IF ~ok THEN OpFails(<<Ev("timeout", "INS button")>>, TimeoutOn("INS button"))
        ELSE IF opArgs.status = "new"
        THEN /\ OpGoes("row", <<Ev("click", "INS")>>)
             /\ UNCHANGED <<opRow, opElement, opTouched, opSeen>>
        ELSE IF opArgs.JsonPk.kind = "throw" THEN OpFails(<<>>, opArgs.JsonPk)
        ELSE /\ OpGoes("row", <<>>)
             /\ UNCHANGED <<opRow, opElement, opTouched, opSeen>>

\* the wait for the row the selector matches
GridLocateRow ==
    /\ opPc = "row"
    /\ LET pkSelector == PkSelector(opArgs.status,
                                    IF opArgs.status = "new" THEN <<>>
                                    ELSE opArgs.JsonPk.value.v)
       IN  IF ~pkSelector.valid
           THEN OpFails(<<>>, Throw("selector", Undefined))
           ELSE \E ok \in BOOLEAN :
                IF ok
                THEN /\ OpGoes(LoopPc(opTouched, opArgs.rowToSave),
                               <<Ev("locateRow", "tr")>>)
                     /\ opRow' = [id |-> "located", pk |-> pkSelector.pk]
                     /\ UNCHANGED <<opElement, opTouched, opSeen>>
                ELSE OpFails(<<Ev("timeout", "row")>>, TimeoutOn("row"))

\* the column the loop is at
ColumnAt == opArgs.rowToSave[Len(opTouched) + 1][1]

\* the lookup of the cell of the column: in the row located, or, when that
\* times out, in a row of the table the selector matches
GridFindCell ==
    /\ opPc = "cell"
    /\ \E found \in {"row", "table", "none"}, id \in {"located", "again"} :
        /\ found # "table" => id = "located"
        /\ LET lookup == CellLookup(found, ColumnAt)
           IN  IF lookup.fails
               THEN OpFails(lookup.events, TimeoutOn(lookup.events[Len(lookup.events)].n))
               ELSE /\ OpGoes("visible", lookup.events)
                    /\ opElement' = [row |-> id, pk |-> opRow.pk, col |-> ColumnAt]
                    /\ UNCHANGED <<opRow, opTouched, opSeen>>

\* element.waitForElementState('visible')
GridCellVisible ==
    /\ opPc = "visible"
    /\ \E ok \in BOOLEAN :
        IF ok THEN /\ OpGoes("type", <<>>)
                   /\ UNCHANGED <<opRow, opElement, opTouched, opSeen>>
        ELSE OpFails(<<Ev("timeout", "cell visible")>>, TimeoutOn("cell visible"))

\* the keys that enter the cell, the text, and the push on touchedElements
GridType ==
    /\ opPc = "type"
    /\ LET prevInputElement == IF opTouched = <<>> THEN Null
                               ELSE opTouched[Len(opTouched)].element
           touched == Append(opTouched, [name |-> ColumnAt, element |-> opElement])
       IN  /\ OpGoes(LoopPc(touched, opArgs.rowToSave),
                     EntryMethod(prevInputElement, opElement)
                         \o <<Ev("insertText", ColumnAt)>>)
           /\ opTouched' = touched
           /\ opElement' = Null
           /\ UNCHANGED <<opRow, opSeen>>

\* page.keyboard.press("Tab") after the loop
GridFinalTab ==
    /\ opPc = "tab"
    /\ OpGoes(IF opTouched = <<>> THEN "read" ELSE "status", FinalKeys)
    /\ UNCHANGED <<opRow, opElement, opTouched, opSeen>>

\* the save-status wait of the next touched column ends
GridWaitStatus ==
    /\ opPc = "status"
    /\ \E own \in IoStatuses, other \in IoStatuses \cup {"norow"} :
        IF StatusMatches(own, other)
        THEN /\ OpGoes(IF Len(opSeen) + 1 = Len(opTouched) THEN "read" ELSE "status",
                       <<Ev("waitStatus", opTouched[Len(opSeen) + 1].name)>>)
             /\ opSeen' = Append(opSeen, own \in TerminalStatuses)
             /\ UNCHANGED <<opRow, opElement, opTouched>>
        ELSE OpFails(<<Ev("timeout", "save status")>>, TimeoutOn("save status"))

\* getFieldData on the touched cells
GridReadBack ==
    /\ opPc = "read"
    /\ opTrace' = Append(opTrace, Ev("readBack", ""))
    /\ opOut' = GetFieldData(CHOOSE d \in Descriptions : d.id = "string",
                             [i \in DOMAIN opTouched |-> opTouched[i].name],
                             [c \in RtColumns |-> ColumnValue(c)])
    /\ opPc' = "done"
    /\ UNCHANGED <<opArgs, opAt, opRow, opElement, opTouched, opSeen, notOpVars>>

OperationNext ==
    \/ AwaitCompletes
    \/ AwaitFails
    \/ GridGoto
    \/ GridWait
    \/ GridInsButton
    \/ GridLocateRow
    \/ GridFindCell
    \/ GridCellVisible
    \/ GridType
    \/ GridFinalTab
    \/ GridWaitStatus
    \/ GridReadBack

(***************************************************************************)
(* tableDataSaveAndTest(table, rows, 'all', 'new') on the table "people",  *)
(* save by save, on a session of either mode.                              *)
(***************************************************************************)
MaxSaves == 2

\* is.object({}).object: the description tableDataSaveAndTest gives to
\* saveRecord declares no field
NoFields == <<>>

\* the rows given: one naming no column, rows with a key, a row without one
SaveAndTestRows ==
    {<<>>,
     <<<<"id", Str("5")>>, <<"name", Str("x")>>>>,
     <<<<"id", Str("6")>>, <<"name", Str("y")>>>>,
     <<<<"name", Str("x")>>>>}

\* a row as the object tableDataTest compares
RowObject(row) == [c \in {row[i][1] : i \in DOMAIN row} |-> Get(row, c)]

\* a call tableDataSaveAndTest makes, or the end of one
StEv(a, n, status) == [a |-> a, n |-> n, status |-> status]

\* AfterSave going on with the loop however the save ended
AfterSave_GoesOn(out) == "loop"

\* await this.saveRecord(...) inside the for loop: a save that fails ends
\* the call, a save that returns goes on with the loop
AfterSave(out) == IF out.kind = "throw" THEN "done" ELSE "loop"

\* BrowserEmulatedSession.tableDataTest given a string as its target
MustUseTarget ==
    Throw("must use {table, description} in tableDataTest for Navigators", Undefined)

SaveAndTestInit ==
    /\ stMode \in {"http", "browser"}
    /\ stRows \in UNION {[1..n -> SaveAndTestRows] : n \in 0..MaxSaves}
    /\ stStored = <<>>
    /\ stAt = 0
    /\ stPc = "loop"
    /\ stLog = <<>>
    /\ stOut = NoOutcome

SaveAndTestIdle ==
    /\ stMode = "none"
    /\ stRows = <<>>
    /\ stStored = <<>>
    /\ stAt = 0
    /\ stPc = "idle"
    /\ stLog = <<>>
    /\ stOut = NoOutcome

\* the variables tableDataSaveAndTest does not write
notStVars == <<parseVars, rowsVars, pkVars, sessVars, rtVars, fnVars, tsVars, wtVars,
               opVars, bmVars>>

\* for (var row of rows): saveRecord is called for the next row
SaveRecordCalled ==
    /\ stPc = "loop"
    /\ stAt < Len(stRows)
    /\ stLog' = Append(stLog, StEv("saveRecord", stAt + 1, "new"))
    /\ stPc' = "saving"
    /\ UNCHANGED <<stMode, stRows, stStored, stAt, stOut, notStVars>>

\* the saveRecord awaited ends: the row is saved or not, and the call
\* returns or fails
SaveRecordEnds ==
    /\ stPc = "saving"
    /\ LET row == stRows[stAt + 1]
           r == IF stMode = "http"
                THEN HttpSaveRecord(stStored, NoFields, row, "new", Undefined)
                ELSE BrowserSaveRecord(stStored, NoFields, row, "new", Undefined)
       IN  /\ stStored' = r.table
           /\ stLog' = Append(stLog,
                  StEv(IF r.out.kind = "throw" THEN "failed" ELSE "saved", stAt + 1, "new"))
           /\ stPc' = AfterSave(r.out)
           /\ stOut' = IF r.out.kind = "throw" THEN r.out ELSE stOut
    /\ stAt' = stAt + 1
    /\ UNCHANGED <<stMode, stRows, notStVars>>

\* return this.tableDataTest(table, rows, compare): the table is given by
\* its name, which a browser session refuses
TableDataTestCalled ==
    /\ stPc = "loop"
    /\ stAt = Len(stRows)
    /\ stLog' = Append(stLog, StEv("tableDataTest", 0, ""))
    /\ IF stMode = "browser"
       THEN stOut' = MustUseTarget /\ stPc' = "done"
       ELSE stOut' = stOut /\ stPc' = "comparing"
    /\ UNCHANGED <<stMode, stRows, stStored, stAt, notStVars>>

\* EmulatedSession.tableDataTest ends: /table_data is answered or not, and
\* the rows read are compared with the rows given
TableDataTestEnds ==
    /\ stPc = "comparing"
    /\ \E served \in BOOLEAN :
          stOut' = IF served
                   THEN HttpTableDataTest(stStored,
                            [i \in DOMAIN stRows |-> RowObject(stRows[i])]).out
                   ELSE Throw("fetch failed", Undefined)
    /\ stPc' = "done"
    /\ UNCHANGED <<stMode, stRows, stStored, stAt, stLog, notStVars>>

SaveAndTestNext ==
    \/ SaveRecordCalled
    \/ SaveRecordEnds
    \/ TableDataTestCalled
    \/ TableDataTestEnds

(***************************************************************************)
(* One BrowserManager.  Its calls are made one after the other; what the   *)
(* browser answers to launch() and close() is chosen when the call is made.*)
(***************************************************************************)
MaxManagerCalls == 4

\* const browserTypes = { chromium, firefox, webkit }
BrowserTypes == {"chromium", "firefox", "webkit"}

\* the values config.browserType may hold
ConfiguredTypes == BrowserTypes \cup {"opera"}

AlreadyStarted ==
    Throw("Browser already started. Use stop() to close it first.", Undefined)

NotStarted == Throw("Browser not started. Call startBrowser() first.", Undefined)

\* this.browser and the browsers launched after a call, and its outcome
ManagerStep(b, launched, out) == [browser |-> b, launched |-> launched, out |-> out]

\* StartOn without the test of this.browser
StartOn_NoGuard(type, b, launched, launchOk) ==
    IF type \notin BrowserTypes
    THEN ManagerStep(b, launched, Throw("Unsupported browser type: " \o type, Undefined))
    ELSE IF ~launchOk
    THEN ManagerStep(b, launched, Throw("browserType.launch", Undefined))
    ELSE ManagerStep(Num(Len(launched) + 1), Append(launched, "open"),
                     Return(Num(Len(launched) + 1)))

\* BrowserManager.start(): launchOk tells whether launch() succeeds
StartOn(type, b, launched, launchOk) ==
    IF b # Null THEN ManagerStep(b, launched, AlreadyStarted)
    ELSE IF type \notin BrowserTypes
    THEN ManagerStep(b, launched, Throw("Unsupported browser type: " \o type, Undefined))
    ELSE IF ~launchOk
    THEN ManagerStep(b, launched, Throw("browserType.launch", Undefined))
    ELSE ManagerStep(Num(Len(launched) + 1), Append(launched, "open"),
                     Return(Num(Len(launched) + 1)))

\* BrowserManager.stop(): closeOk tells whether browser.close() succeeds, and
\* closed whether a close() that fails has closed the browser all the same
StopOn(b, launched, closeOk, closed) ==
    IF b = Null THEN ManagerStep(b, launched, Return(Undefined))
    ELSE IF ~closeOk
    THEN ManagerStep(b, IF closed THEN [launched EXCEPT ![b.v] = "closed"] ELSE launched,
                     Throw("browser.close", Undefined))
    ELSE ManagerStep(Null, [launched EXCEPT ![b.v] = "closed"], Return(Undefined))

\* BrowserManager.getBrowser()
GetBrowserOn(b) == IF b = Null THEN NotStarted ELSE Return(b)

\* BrowserManager.isStarted()
IsStartedOn(b) == Return(Bool(b # Null))

ManagerInit ==
    /\ bmType \in ConfiguredTypes
    /\ bmBrowser = Null
    /\ bmLaunched = <<>>
    /\ bmCalls = <<>>

ManagerIdle ==
    /\ bmType = "none"
    /\ bmBrowser = Null
    /\ bmLaunched = <<>>
    /\ bmCalls = <<>>

\* the variables a BrowserManager does not write
notBmVars == <<parseVars, rowsVars, pkVars, sessVars, rtVars, fnVars, tsVars, wtVars,
               opVars, stVars>>

\* a call of the manager has run
ManagerCall(op, r) ==
    /\ Len(bmCalls) < MaxManagerCalls
    /\ bmBrowser' = r.browser
    /\ bmLaunched' = r.launched
    /\ bmCalls' = Append(bmCalls,
          [op |-> op, before |-> bmBrowser, after |-> r.browser,
           launches |-> Len(r.launched) - Len(bmLaunched), out |-> r.out])
    /\ UNCHANGED <<bmType, notBmVars>>

ManagerStart ==
    /\ bmType # "none"
    /\ \E launchOk \in BOOLEAN :
          ManagerCall("start", StartOn(bmType, bmBrowser, bmLaunched, launchOk))

ManagerStop ==
    /\ bmType # "none"
    /\ \E closeOk, closed \in BOOLEAN :
          ManagerCall("stop", StopOn(bmBrowser, bmLaunched, closeOk, closed))

ManagerGetBrowser ==
    /\ bmType # "none"
    /\ ManagerCall("getBrowser", ManagerStep(bmBrowser, bmLaunched, GetBrowserOn(bmBrowser)))

ManagerIsStarted ==
    /\ bmType # "none"
    /\ ManagerCall("isStarted", ManagerStep(bmBrowser, bmLaunched, IsStartedOn(bmBrowser)))

ManagerNext ==
    \/ ManagerStart
    \/ ManagerStop
    \/ ManagerGetBrowser
    \/ ManagerIsStarted

SessionNext ==
    \/ HttpLogin
    \/ CallProcedure
    \/ HttpCloseSession
    \/ FetchHeaders
    \/ FetchBody
    \/ FetchRejects
    \/ InitSession
    \/ BrowserLogin
    \/ BrowserCloseSession

(***************************************************************************)
(* The specifications: one per part of the program.                        *)
(***************************************************************************)
ParseNext == GetResult /\ UNCHANGED <<rowsVars, pkVars, sessVars, rtVars, fnVars, tsVars,
                                      wtVars, opVars, stVars, bmVars>>

InitParse ==
    ParseInit /\ RowsIdle /\ PkIdle /\ SessionIdle /\ RoundTripIdle /\ FunctionIdle
        /\ TwoSessionsIdle /\ WithTimeoutIdle /\ OperationIdle
        /\ SaveAndTestIdle /\ ManagerIdle

SpecParse == InitParse /\ [][ParseNext]_vars

RowsNext == CompareRows /\ UNCHANGED <<parseVars, pkVars, sessVars, rtVars, fnVars,
                                       tsVars, wtVars, opVars, stVars, bmVars>>

InitRows ==
    RowsInit /\ ParseIdle /\ PkIdle /\ SessionIdle /\ RoundTripIdle /\ FunctionIdle
        /\ TwoSessionsIdle /\ WithTimeoutIdle /\ OperationIdle
        /\ SaveAndTestIdle /\ ManagerIdle

SpecRows == InitRows /\ [][RowsNext]_vars

PkNext == GetJsonPkValues /\ UNCHANGED <<parseVars, rowsVars, sessVars, rtVars, fnVars,
                                         tsVars, wtVars, opVars, stVars, bmVars>>

InitPk ==
    PkInit /\ ParseIdle /\ RowsIdle /\ SessionIdle /\ RoundTripIdle /\ FunctionIdle
        /\ TwoSessionsIdle /\ WithTimeoutIdle /\ OperationIdle
        /\ SaveAndTestIdle /\ ManagerIdle

SpecPk == InitPk /\ [][PkNext]_vars

InitSessionSpec ==
    SessionInit /\ ParseIdle /\ RowsIdle /\ PkIdle /\ RoundTripIdle /\ FunctionIdle
        /\ TwoSessionsIdle /\ WithTimeoutIdle /\ OperationIdle
        /\ SaveAndTestIdle /\ ManagerIdle

SpecSession == InitSessionSpec /\ [][SessionNext]_vars

InitRoundTrip ==
    RoundTripInit /\ ParseIdle /\ RowsIdle /\ PkIdle /\ SessionIdle /\ FunctionIdle
        /\ TwoSessionsIdle /\ WithTimeoutIdle /\ OperationIdle
        /\ SaveAndTestIdle /\ ManagerIdle

SpecRoundTrip == InitRoundTrip /\ [][RoundTripNext]_vars

InitFunctions ==
    FunctionInit /\ ParseIdle /\ RowsIdle /\ PkIdle /\ SessionIdle /\ RoundTripIdle
        /\ TwoSessionsIdle /\ WithTimeoutIdle /\ OperationIdle
        /\ SaveAndTestIdle /\ ManagerIdle

SpecFunctions == InitFunctions /\ [][FunctionNext]_vars

InitTwoSessions ==
    TwoSessionsInit /\ ParseIdle /\ RowsIdle /\ PkIdle /\ SessionIdle /\ RoundTripIdle
        /\ FunctionIdle /\ WithTimeoutIdle /\ OperationIdle
        /\ SaveAndTestIdle /\ ManagerIdle

SpecTwoSessions == InitTwoSessions /\ [][TwoSessionsNext]_vars

InitWithTimeout ==
    WithTimeoutInit /\ ParseIdle /\ RowsIdle /\ PkIdle /\ SessionIdle /\ RoundTripIdle
        /\ FunctionIdle /\ TwoSessionsIdle /\ OperationIdle
        /\ SaveAndTestIdle /\ ManagerIdle

SpecWithTimeout == InitWithTimeout /\ [][WithTimeoutNext]_vars

InitOperation ==
    OperationInit /\ ParseIdle /\ RowsIdle /\ PkIdle /\ SessionIdle /\ RoundTripIdle
        /\ FunctionIdle /\ TwoSessionsIdle /\ WithTimeoutIdle
        /\ SaveAndTestIdle /\ ManagerIdle

SpecOperation == InitOperation /\ [][OperationNext]_vars

\* every await of the operation ends, well or in its time-out
SpecOperationLive == SpecOperation /\ WF_vars(OperationNext)

InitSaveAndTest ==
    SaveAndTestInit /\ ParseIdle /\ RowsIdle /\ PkIdle /\ SessionIdle /\ RoundTripIdle
        /\ FunctionIdle /\ TwoSessionsIdle /\ WithTimeoutIdle /\ OperationIdle
        /\ ManagerIdle

SpecSaveAndTest == InitSaveAndTest /\ [][SaveAndTestNext]_vars

InitManager ==
    ManagerInit /\ ParseIdle /\ RowsIdle /\ PkIdle /\ SessionIdle /\ RoundTripIdle
        /\ FunctionIdle /\ TwoSessionsIdle /\ WithTimeoutIdle /\ OperationIdle
        /\ SaveAndTestIdle

SpecManager == InitManager /\ [][ManagerNext]_vars

(***************************************************************************)
(* Properties of getResult in 'JSON+' mode (SpecParse).                    *)
(***************************************************************************)
grLines == SplitLines(grText)

\* a notice line: a parseable record without an `error` field
IsNoticeLine(l) ==
    /\ l # ""
    /\ JSON4allParse(l).t = "object"
    /\ JSON4allParse(l).error = Undefined

\* a payload line: a line JSON4all.parse decodes
IsPayloadLine(l) == l # "" /\ JSON4allParse(l) # SyntaxError

\* an error record: its `error` field holds {message, code}
IsErrorRecord(l) ==
    /\ JSON4allParse(l).t = "object"
    /\ JSON4allParse(l).error.t = "object"

\* n notice lines, then the separator, then a payload line, and nothing else
IsValidStream(ls, n) ==
    /\ Len(ls) = n + 2
    /\ \A i \in 1..n : IsNoticeLine(ls[i])
    /\ ls[n + 1] = Separator
    /\ IsPayloadLine(ls[n + 2])

\* the notices a call logged: the items of the notice lists it printed
RECURSIVE NoticesLogged(_)
NoticesLogged(log) ==
    IF log = <<>> THEN 0
    ELSE (IF Head(log).tag = "notices" THEN Len(Head(log).items) ELSE 0)
         + NoticesLogged(Tail(log))

C2_FirstErrorRecordThrowsItsCode ==
    (grPc = "done" /\ IsErrorRecord(grLines[1])) =>
        /\ grOut.kind = "throw"
        /\ grOut.message = "Backend error: " \o JSON4allParse(grLines[1]).error.message
        /\ grOut.code = JSON4allParse(grLines[1]).error.code

\* C2 witness: the error record with code B was followed by a separator and a payload
C2_Witness ==
    /\ grPc = "done"
    /\ Len(grLines) >= 3
    /\ grLines[1] = ErrorLineB
    /\ grLines[2] = Separator
    /\ IsPayloadLine(grLines[3])
    /\ grOut.code = Str("B")

HasSeparator(ls) == \E i \in 1..Len(ls) : ls[i] = Separator

\* C3 as stated: every text without a separator line fails with
\* 'result not received', whatever its lines hold.
C3_NoSeparatorAlwaysNotReceived ==
    (grPc = "done" /\ ~HasSeparator(grLines)) =>
        grOut = Throw("result not received", Undefined)

\* C3 amended: a text without a separator line, every line of which is empty
\* or a parseable record without an `error` field, fails with
\* 'result not received'.
C3_NoSeparatorNoticesOnlyNotReceived ==
    (/\ grPc = "done"
     /\ ~HasSeparator(grLines)
     /\ \A i \in 1..Len(grLines) : grLines[i] = "" \/ IsNoticeLine(grLines[i])) =>
        grOut = Throw("result not received", Undefined)

\* C3 witness: three notices and no separator were parsed, and the empty text was
C3_Witness ==
    /\ grPc = "done"
    /\ grOut = Throw("result not received", Undefined)
    /\ \/ Len(grLines) = 3 /\ \A i \in 1..3 : IsNoticeLine(grLines[i])
       \/ grText = <<>>

(***************************************************************************)
(* Properties of compareRows (SpecRows).                                   *)
(***************************************************************************)
\* a row restricted to a set of columns
Project(row, cols) == [k \in DOMAIN row \cap cols |-> row[k]]

\* the observed rows as the claim compares them
ProjectedObtained ==
    IF crExpected = <<>> THEN crObtained
    ELSE [i \in 1..Len(crObtained) |-> Project(crObtained[i], DOMAIN crExpected[1])]

\* C4: with mode 'all' the comparison passes exactly when the observed rows,
\* each projected onto the columns of the first expected row (unprojected when
\* no row is expected), equal the expected rows one by one in the same order;
\* otherwise it fails with a discrepancy.
C4_PassesIffProjectedEqualInOrder ==
    (crPc = "done" /\ crCompare = "all") =>
        /\ (crOut = Return(Undefined)) <=> (ProjectedObtained = crExpected)
        /\ (crOut = Throw("discrepances", Undefined)) <=> (ProjectedObtained # crExpected)

\* C4 witness: two different expected rows were observed in the opposite order,
\* with an extra column, and the comparison failed
C4_Witness ==
    /\ crPc = "done"
    /\ crCompare = "all"
    /\ Len(crExpected) = 2
    /\ Len(crObtained) = 2
    /\ crExpected[1] # crExpected[2]
    /\ DOMAIN crExpected[1] = {"a", "b"}
    /\ DOMAIN crExpected[2] = {"a", "b"}
    /\ Project(crObtained[1], {"a", "b"}) = crExpected[2]
    /\ Project(crObtained[2], {"a", "b"}) = crExpected[1]
    /\ "c" \in DOMAIN crObtained[1]
    /\ crOut.kind = "throw"

(***************************************************************************)
(* Properties of getJsonPkValues (SpecPk).                                 *)
(***************************************************************************)
\* the value a row holds in column f, whatever its place in the row
ValueIn(row, f) ==
    IF \E i \in DOMAIN row : row[i][1] = f
    THEN (CHOOSE p \in {row[i] : i \in DOMAIN row} : p[1] = f)[2]
    ELSE Undefined

SameKeyValues(table, r1, r2) ==
    \A j \in DOMAIN TableStructures[table].primaryKey :
        ValueIn(r1, TableStructures[table].primaryKey[j])
            = ValueIn(r2, TableStructures[table].primaryKey[j])

\* C5: without explicit primaryKeyValues, two rows holding the same values in
\* the declared key columns get the same signature, whatever the order of
\* their keys and their other columns, and the signature lists the key values
\* in the declared key order.
C5_SignatureIsOrderStable ==
    (/\ Len(pkOut) = 2
     /\ pkTable \in DOMAIN TableStructures
     /\ pkExplicit \in {Undefined, Null}
     /\ SameKeyValues(pkTable, pkRows[1], pkRows[2])) =>
        /\ pkOut[1].kind = "return"
        /\ pkOut[1] = pkOut[2]
        /\ pkOut[1].value.v =
             JSON4allStringify(Arr(
                [j \in DOMAIN TableStructures[pkTable].primaryKey |->
                    ValueIn(pkRows[1], TableStructures[pkTable].primaryKey[j])]))

\* C5 witness: two rows of a table with a two-column key list the key columns
\* in opposite orders, one of them with another column, and got a signature
C5_Witness ==
    /\ Len(pkOut) = 2
    /\ pkTable = "items"
    /\ pkExplicit = Undefined
    /\ Keys(pkRows[1]) = <<"sub", "id">>
    /\ Keys(pkRows[2]) = <<"name", "id", "sub">>
    /\ SameKeyValues(pkTable, pkRows[1], pkRows[2])
    /\ pkOut[2].kind = "return"

(***************************************************************************)
(* Properties of the session (SpecSession).                                *)
(***************************************************************************)
CloseSessionCalls == {i \in 1..Len(calls) : calls[i].op = "closeSession"}

\* the call made in this step, when the step is a call of closeSession
ClosesSession ==
    /\ Len(calls') = Len(calls) + 1
    /\ calls'[Len(calls')].op = "closeSession"

\* the session holds nothing a closeSession would tear down
IsClosed == config = Null /\ page = Null /\ context = Null

\* C7: closeSession can be called in any state and any number of times: every
\* call completes without failure, and a call on a closed session changes
\* nothing.
C7_CloseSessionNeverFails ==
    /\ [](\A i \in CloseSessionCalls : calls[i].outcome = Return(Undefined))
    /\ [][(ClosesSession /\ IsClosed) =>
            UNCHANGED <<cookies, config, page, context, browser>>]_vars

AllClosed(b) ==
    /\ \A c \in DOMAIN b.contexts : b.contexts[c] = "closed"
    /\ \A p \in DOMAIN b.pages : b.pages[p].state = "closed"

\* C8: once closeSession has completed, an HTTP session holds no cookie, so
\* that its next request carries no Cookie header, and a browser session has
\* neither page nor context, all of them closed.
C8_CloseSessionTearsDown ==
    [][(ClosesSession /\ calls'[Len(calls')].outcome.kind = "return") =>
         /\ mode = "http" =>
               (cookies' = <<>> /\ CookieHeader(cookies') = Undefined)
         /\ mode = "browser" =>
               (page' = Null /\ context' = Null /\ AllClosed(browser'))]_vars

\* C9: at every moment the cookie set is exactly the Set-Cookie values of the
\* response received last (and empty before any response), whatever the
\* order in which overlapping requests are answered.
C9_CookiesAreLastResponse ==
    /\ lastSetCookie.got => cookies = lastSetCookie.values
    /\ ~lastSetCookie.got => cookies = <<>>

\* C9 witness: of two overlapping requests the first was answered last, after
\* the second had been answered and had ended, and its response set no cookie
C9_Witness ==
    /\ Len(calls) = 2
    /\ calls[1].op = "callProcedure"
    /\ calls[2].op = "login"
    /\ calls[2].pc = "done"
    /\ calls[2].status = 302
    /\ lastSetCookie.from = 1
    /\ lastSetCookie.values = <<>>
    /\ cookies = <<>>

LoginCalls == {i \in 1..Len(calls) : calls[i].op = "login" /\ mode = "http"}

\* the response to POST /login of call i had a status other than 302
Not302(call) == call.status \notin {0, 302}

\* C10: an HTTP login whose POST /login is answered with a status other than
\* 302 fails, whatever its opts, has sent no request but that POST, and the
\* step in which it fails leaves config unchanged.
C10_LoginRequires302 ==
    /\ [](\A i \in LoginCalls : Not302(calls[i]) =>
            /\ calls[i].pc = "done"
            /\ calls[i].outcome.kind = "throw"
            /\ calls[i].sent = <<[path |-> <<"/login">>, method |-> "post"]>>)
    /\ [][\A i \in LoginCalls :
            (calls[i].pc = "login-post" /\ Not302(calls'[i])) => config' = config]_vars

\* C10 witness: after a login that succeeded, a login with returnErrorMessage
\* was answered 401 and failed, config still holding the first login's value
C10_Witness ==
    /\ mode = "http"
    /\ Len(calls) = 2
    /\ calls[1].op = "login" /\ calls[1].outcome = Return(Null)
    /\ calls[2].op = "login" /\ calls[2].returnErrorMessage
    /\ calls[2].status = 401
    /\ calls[2].outcome.kind = "throw"
    /\ config = JSON4allParse(ConfigText)

(***************************************************************************)
(* Properties of saving and reading back (SpecRoundTrip).                  *)
(***************************************************************************)
\* the merged row: the first row overlaid with the updated columns
MergedRow == Merged(rtRows[1], rtRows[2])

\* the three calls passed so far, and the rows read back are the merged row
RoundTripPasses ==
    /\ AllReturned
    /\ Len(rtOut) = 3 => FilteredReponseRows(rtObtained, <<MergedRow>>) = <<MergedRow>>

\* C6 as stated: on one session saveRecord 'new', saveRecord 'update' on the
\* key taken from the first result, and tableDataTest 'all' against the merged
\* row all pass, and the row read back is the merged row.
C6_RoundTripAlwaysPasses == rtMode # "none" => RoundTripPasses

\* the columns the two saved rows name
SavedColumns == DOMAIN MergedRow

\* what a browser session needs: the first row names the primary key, and
\* every saved column is declared a string or a boolean
BrowserCanReadBack ==
    /\ \A i \in DOMAIN TableStructures[RtTable].primaryKey :
          Get(rtRows[1], TableStructures[RtTable].primaryKey[i]) # Undefined
    /\ \A c \in SavedColumns : rtDescription[c] \in {"string", "boolean"}

\* C6 amended: the three calls pass and the row read back is the merged row
\* when the table held no row before the first call and, on a browser
\* session, the first row names the primary key and every saved column is
\* declared a string or a boolean.
C6_RoundTripPassesOnEmptyTable ==
    (/\ rtMode # "none"
     /\ rtBefore = <<>>
     /\ rtMode = "browser" => BrowserCanReadBack) => RoundTripPasses

\* C6 witness: a browser session read back a row whose name and flag the
\* update had changed
C6_Witness ==
    /\ rtMode = "browser"
    /\ rtBefore = <<>>
    /\ Len(rtOut) = 3
    /\ AllReturned
    /\ MergedRow.name # Get(rtRows[1], "name")
    /\ MergedRow.active # Get(rtRows[1], "active")
    /\ rtObtained = <<MergedRow>>

(***************************************************************************)
(* Properties of login (SpecSession).                                      *)
(***************************************************************************)
PostLogin == [path |-> <<"/login">>, method |-> "post"]
GetClientSetup == [path |-> <<"/client-setup">>, method |-> "get"]

\* the logins of an HTTP session whose POST /login was answered 302 with a
\* location that matches the configured success path
MatchedLogins ==
    {i \in LoginCalls : calls[i].status = 302
                        /\ HttpLoginMatches(calls[i].location, SuccessRedirect)}

\* call i has read a body that decodes
ReadDecodable(call) ==
    call.body # Undefined /\ JSON4allParse(call.body.v) # SyntaxError

\* C11: an HTTP login answered 302 with a matching location sends, after the
\* POST, exactly one request, GET /client-setup; once it has read the body it
\* returns null, and the step in which it returns stores the decoded body as
\* config.
C11_LoginSuccessFetchesConfig ==
    /\ [](\A i \in MatchedLogins :
            /\ calls[i].sent = <<PostLogin, GetClientSetup>>
            /\ calls[i].outcome.kind = "return" =>
                  (calls[i].outcome = Return(Null) /\ ReadDecodable(calls[i]))
            /\ (calls[i].pc = "done" /\ ReadDecodable(calls[i])) =>
                  calls[i].outcome = Return(Null))
    /\ [][\A i \in LoginCalls :
            (calls[i].pc = "client-setup-body" /\ calls'[i].outcome.kind = "return")
                => config' = JSON4allParse(calls'[i].body.v)]_vars

\* C11 witness: a login answered 302 to ./menu has read the client
\* configuration, returned null, and config holds the decoded configuration
C11_Witness ==
    \E i \in MatchedLogins :
        /\ calls[i].location = Str(<<".", "/menu">>)
        /\ calls[i].body = Str(ConfigText)
        /\ calls[i].outcome = Return(Null)
        /\ config = Obj(Undefined, "config")

\* the logins of an HTTP session whose POST /login was answered 302 with a
\* location that does not match the configured success path
MismatchedLogins ==
    {i \in LoginCalls : calls[i].status = 302
                        /\ calls[i].location # Null
                        /\ ~HttpLoginMatches(calls[i].location, SuccessRedirect)}

\* C12: an HTTP login answered 302 with a location that does not match fails
\* without opts.returnErrorMessage, having sent nothing after the POST; with
\* the option it sends one GET to that location and returns the message of
\* the page it reads; it never asks for /client-setup, and none of its steps
\* changes config.
C12_LoginMismatch ==
    /\ [](\A i \in MismatchedLogins :
            IF calls[i].returnErrorMessage
            THEN /\ calls[i].sent =
                        <<PostLogin, [path |-> calls[i].location.v, method |-> "get"]>>
                 /\ calls[i].body = Str(PageWithError) =>
                        calls[i].outcome = Return(Str("bad user"))
                 /\ calls[i].body = Str(PageWithoutError) =>
                        calls[i].outcome = Return(Undefined)
            ELSE /\ calls[i].sent = <<PostLogin>>
                 /\ calls[i].pc = "done"
                 /\ calls[i].outcome.kind = "throw")
    /\ [][\A i \in 1..Len(calls) :
            (i \in MismatchedLogins' /\ calls'[i] # calls[i]) => config' = config]_vars

\* C12 witness: after a login that succeeded, a login with returnErrorMessage
\* was answered 302 to ./login and returned the message of that page, config
\* still holding the first login's value
C12_Witness ==
    /\ Len(calls) = 2
    /\ calls[1].outcome = Return(Null)
    /\ 2 \in MismatchedLogins
    /\ calls[2].returnErrorMessage
    /\ calls[2].location = Str(<<".", "/login">>)
    /\ calls[2].outcome = Return(Str("bad user"))
    /\ config = Obj(Undefined, "config")

\* the logins that met a wrong password: an HTTP login answered 302 to the
\* login page, which shows the error message, and a browser login whose page
\* stays on the login URL and shows the error message
WrongPasswordLogins ==
    {i \in 1..Len(calls) :
        /\ calls[i].op = "login"
        /\ IF mode = "http"
           THEN /\ calls[i].status = 302
                /\ calls[i].location = Str(<<".", "/login">>)
                /\ calls[i].returnErrorMessage =>
                      (calls[i].pc = "done" => calls[i].body = Str(PageWithError))
           ELSE /\ calls[i].shown # Undefined
                /\ calls[i].shown.answers
                /\ calls[i].shown.url = LoginUrl
                /\ calls[i].shown.error = Str("bad user")}

\* C13: a login with a wrong password ends the same way in both modes: with
\* returnErrorMessage it returns the rendered error message, without it it
\* fails, it never returns null, and while it has not ended it waits for a
\* response, which arrives or is rejected.
C13_WrongPasswordSameInBothModes ==
    \A i \in WrongPasswordLogins :
        /\ calls[i].pc # "done" =>
              (mode = "http" /\ calls[i].pc \in AwaitsHeaders \cup AwaitsBody)
        /\ calls[i].pc = "done" =>
              /\ calls[i].outcome # Return(Null)
              /\ IF calls[i].returnErrorMessage
                 THEN calls[i].outcome = Return(Str("bad user"))
                 ELSE calls[i].outcome.kind = "throw"

\* C13 witness: a browser session met a wrong password twice, with and
\* without returnErrorMessage
C13_Witness ==
    /\ mode = "browser"
    /\ WrongPasswordLogins = {1, 2}
    /\ calls[1].returnErrorMessage
    /\ calls[1].outcome = Return(Str("bad user"))
    /\ ~calls[2].returnErrorMessage
    /\ calls[2].outcome.kind = "throw"

\* no call so far failed to create a context or a page
CreationSucceeded ==
    \A i \in 1..Len(calls) :
        calls[i].outcome.message \notin {"browser.newContext", "context.newPage"}

\* the calls so far are initSession and login calls of a browser session
OnlyInitAndLogin ==
    /\ mode = "browser"
    /\ \A i \in 1..Len(calls) : calls[i].op \in {"initSession", "login"}

\* C17: on a browser session on which only initSession and login have been
\* called, the first call creates one context and one page, which the session
\* holds open, and no later call creates anything.
C17_OneContextOnePage ==
    /\ []((OnlyInitAndLogin /\ CreationSucceeded /\ Len(calls) > 0) =>
            /\ browser.contexts = <<"open">>
            /\ browser.pages = <<[context |-> 1, state |-> "open"]>>
            /\ context = Num(1)
            /\ page = Num(1))
    /\ [][(OnlyInitAndLogin' /\ CreationSucceeded' /\ Len(calls) > 0) =>
            browser' = browser]_vars

\* C17 witness: an initSession and then a login ran on one context and one page
C17_Witness ==
    /\ OnlyInitAndLogin
    /\ CreationSucceeded
    /\ Len(calls) = 2
    /\ calls[1].op = "initSession"
    /\ calls[2].op = "login"
    /\ calls[2].outcome = Return(Null)
    /\ Len(browser.pages) = 1

\* the browser logins that reached the page
BrowserLogins ==
    {i \in 1..Len(calls) :
        mode = "browser" /\ calls[i].op = "login" /\ calls[i].shown # Undefined}

\* C19: a browser login returns null only when the page shows an active-user
\* element whose text is the username; when its URL matches and the element
\* is absent or shows another text, the login fails.
C19_NullOnlyForActiveUser ==
    \A i \in BrowserLogins :
        /\ calls[i].outcome = Return(Null) => calls[i].shown.activeUser = Str(Username)
        /\ (/\ calls[i].shown.answers
            /\ calls[i].shown.url = MenuUrl
            /\ calls[i].shown.activeUser # Str(Username)) => calls[i].outcome.kind = "throw"

\* C19 witness: a login on a page showing another user failed, and a login on
\* a page showing the username returned null
C19_Witness ==
    /\ BrowserLogins = {1, 2}
    /\ calls[1].shown.activeUser = Str("eva")
    /\ calls[1].outcome.kind = "throw"
    /\ calls[2].shown.activeUser = Str(Username)
    /\ calls[2].outcome = Return(Null)

\* C20: no operation of a browser session sends a request of its own to the
\* backend.
C20_BrowserSendsNoRequest ==
    mode = "browser" => \A i \in 1..Len(calls) : calls[i].sent = <<>>

(***************************************************************************)
(* Properties of single calls (SpecFunctions).                             *)
(***************************************************************************)
Called(name) == fnName = name /\ fnOut # NoOutcome

\* C14: HTTP saveRecord, with status 'new' as with 'update', returns a row
\* exactly when the command of the answer is 'INSERT' or 'UPDATE'; for every
\* other command, a missing one included, it fails.
C14_RowOnlyOnInsertOrUpdate ==
    Called("saveRecord") =>
        IF fnArgs.command \in {Str("INSERT"), Str("UPDATE")}
        THEN fnOut.kind = "return" /\ DOMAIN fnOut.value = RtColumns
        ELSE fnOut.kind = "throw"

\* C14 witness: an update answered without a command failed
C14_Witness ==
    /\ Called("saveRecord")
    /\ fnArgs.status = "update"
    /\ fnArgs.command = Undefined
    /\ fnOut.kind = "throw"

\* C15: expectError completes normally exactly when the action fails with an
\* error whose code is check; it fails when the action completes and when the
\* action fails with another code, for an action that returns a promise as
\* for one that does not.
C15_ExpectErrorPassesOnlyOnCode ==
    Called("expectError") =>
        (fnOut.kind = "return" <=>
            (fnArgs.action.fails /\ fnArgs.action.code = Str(fnArgs.check)))

\* C15 witness: the promise of an action was fulfilled, and expectError failed
C15_Witness ==
    /\ Called("expectError")
    /\ fnArgs.action.promise
    /\ ~fnArgs.action.fails
    /\ fnOut.message = "expectError -> not ERROR!"

\* C18 as stated: on every value and every success path, browser login
\* decides success exactly when HTTP login does.
C18_SameDecision ==
    Called("loginDecision") => fnOut.value.browser = fnOut.value.http

\* C18 amended: every value HTTP login takes for a success browser login
\* takes for a success too; browser login takes for a success every value
\* that holds the success path anywhere.
C18_HttpSuccessIsBrowserSuccess ==
    Called("loginDecision") =>
        /\ fnOut.value.http => fnOut.value.browser
        /\ fnOut.value.browser <=>
              \E before, after \in Urls :
                  fnArgs.value = before \o fnArgs.successRedirect \o after

\* C18 witness: the value ./m is a success for both logins when the success
\* path is /m
C18_Witness ==
    /\ Called("loginDecision")
    /\ fnArgs.value = <<".", "/", "m">>
    /\ fnArgs.successRedirect = <<"/", "m">>
    /\ fnOut.value.http
    /\ fnOut.value.browser

(***************************************************************************)
(* Properties of two sessions (SpecTwoSessions).                           *)
(***************************************************************************)
\* what session k holds: its cookies and config, and its page and context
\* with the state the browser keeps of them
Holds(k) ==
    [cookies |-> ts[k].cookies,
     config  |-> ts[k].config,
     page    |-> ts[k].page,
     context |-> ts[k].context,
     pageState |-> IF ts[k].page = Null THEN "none"
                   ELSE tsBrowser.pages[ts[k].page.v].state,
     contextState |-> IF ts[k].context = Null THEN "none"
                      ELSE tsBrowser.contexts[ts[k].context.v]]

\* C16: a step of an operation of one session changes nothing the other
\* session holds: its cookies, config, page and context stay as they were.
C16_SessionsAreIsolated ==
    [][\A k \in SessionIds : tsActor' = k =>
          \A j \in SessionIds \ {k} : Holds(j)' = Holds(j)]_vars

\* C16 witness: session 2 holds an open page and its context while session 1,
\* which acted last, has closed its own
C16_Witness ==
    /\ tsMode = "browser"
    /\ tsActor = 1
    /\ ts[1].page = Null
    /\ ts[1].context = Null
    /\ Len(tsBrowser.contexts) = 2
    /\ Holds(2).pageState = "open"
    /\ Holds(2).contextState = "open"
    /\ \E c \in DOMAIN tsBrowser.contexts : tsBrowser.contexts[c] = "closed"

\* C21: on a text and a type made of boolean, valueFromVisualRepresentation
\* returns true for a yes token, false for "no", and fails for every other text.
C21_BooleanDecodesOrFails ==
    (Called("valueFromVisualRepresentation") /\ fnArgs.type = "boolean"
        /\ fnArgs.representation # Null)
    => IF fnArgs.representation.v \in {"yes", "si", "sí", "Sí", "Si"}
       THEN fnOut = Return(Bool(TRUE))
       ELSE IF fnArgs.representation.v = "no" THEN fnOut = Return(Bool(FALSE))
       ELSE fnOut.kind = "throw"

\* C22: on no text valueFromVisualRepresentation returns null exactly when the
\* type is made of nullable or optional, and fails otherwise; on a text and a
\* type made of string it returns the text.
C22_NullAndStringDecoding ==
    Called("valueFromVisualRepresentation")
    => /\ fnArgs.representation = Null
          => /\ fnArgs.type \in {"nullable", "optional"} <=> fnOut = Return(Null)
             /\ fnArgs.type \notin {"nullable", "optional"} <=> fnOut.kind = "throw"
       /\ (fnArgs.representation # Null /\ fnArgs.type = "string")
          => fnOut = Return(fnArgs.representation)

\* C22 witness: no text was decoded for a boolean field and the call failed
C22_Witness ==
    /\ Called("valueFromVisualRepresentation")
    /\ fnArgs.representation = Null
    /\ fnArgs.type = "boolean"
    /\ fnOut.kind = "throw"

\* the names of the fixed fields of the call
FixedNames == {fnArgs.fixedFields[j][1] : j \in DOMAIN fnArgs.fixedFields}

\* every row of the list carries each fixed field with its fixed value
CarryFixed(rows) ==
    \A i \in DOMAIN rows : \A name \in FixedNames :
        name \in DOMAIN rows[i] /\ rows[i][name] = Get(fnArgs.fixedFields, name)

\* C24: when tableDataTest with fixed fields given as a record compares, every
\* expected row and every row read carries each fixed field with its value.
C24_FixedFieldsOnBothSides ==
    (Called("tableDataTest") /\ fnOut.compared)
    => CarryFixed(fnOut.expected) /\ CarryFixed(fnOut.obtained)

(***************************************************************************)
(* Properties of withTimeout (SpecWithTimeout).                            *)
(***************************************************************************)
\* C25: the promise withTimeout returns has the outcome of the promise given
\* when that one settles first, and fails with the message given, or with
\* 'timeout in withTimeout' when none is given, when the timer fires first;
\* it has settled once the timer has fired, and once settled it never changes.
C25_FirstToSettleDecides ==
    /\ [](/\ wtFirst = "promise" => wtOut = wtArgs.outcome
          /\ wtFirst = "timer" =>
                /\ wtOut.kind = "throw"
                /\ wtOut.message = IF wtArgs.message \in {Str(""), Str("too slow")}
                                   THEN wtArgs.message.v
                                   ELSE "timeout in withTimeout"
          /\ wtTimer = "fired" => wtOut # NoOutcome)
    /\ [][wtOut # NoOutcome => wtOut' = wtOut]_vars

\* C25 witness: the timer fired first with no message given, and the promise
\* given settled afterwards with a value
C25_Witness ==
    /\ wtFirst = "timer"
    /\ wtArgs.message = Undefined
    /\ wtPromise = "settled"
    /\ wtArgs.outcome = Return(Str("a"))
    /\ wtOut = Throw("timeout in withTimeout", Undefined)

(***************************************************************************)
(* Properties of one operation (SpecOperation, SpecOperationLive).         *)
(***************************************************************************)
\* the place in the trace of the text inserted for the column
InsertedAt(name) == CHOOSE k \in DOMAIN opTrace : opTrace[k] = Ev("insertText", name)

\* how the i-th touched cell was entered
EnteredBy(i) ==
    LET k == InsertedAt(opTouched[i].name)
    IN  IF opTrace[k - 1] = Ev("press", "Tab") /\ opTrace[k - 2].a = "findCell"
        THEN "tab"
        ELSE IF /\ opTrace[k - 1] = Ev("press", "Shift+End")
                /\ opTrace[k - 2] = Ev("focus", opTouched[i].name)
        THEN "focus and select"
        ELSE "other"

\* el is the element that follows prev among the children of its row
IsNextSibling(prev, el) ==
    /\ el.row = prev.row
    /\ \E i \in 1..(Len(GridColumns) - 1) :
          GridColumns[i] = prev.col /\ GridColumns[i + 1] = el.col

\* C23: in browser saveRecord the first column is entered by focus and select
\* to end; a later column by a bare Tab exactly when its cell is the next
\* sibling of the cell touched before it, and by focus and select otherwise.
C23_TabOnlyToNextSibling ==
    OnGrid =>
        \A i \in DOMAIN opTouched :
            EnteredBy(i) = IF i > 1 /\ IsNextSibling(opTouched[i - 1].element,
                                                     opTouched[i].element)
                           THEN "tab"
                           ELSE "focus and select"

\* C23 witness: three columns of one row, the second next to the first and
\* the third not next to the second: focus and select, Tab, focus and select
C23_Witness ==
    /\ OnGrid
    /\ Len(opTouched) = 3
    /\ \A i \in 1..3 : opTouched[i].element.row = "located"
    /\ <<opTouched[1].name, opTouched[2].name, opTouched[3].name>>
          = <<"name", "active", "id">>
    /\ <<EnteredBy(1), EnteredBy(2), EnteredBy(3)>>
          = <<"focus and select", "tab", "focus and select">>

\* C27: browser saveRecord returns a row only when each save-status wait ended
\* with the touched cell of the edited row in a terminal status.
C27_ReturnsAfterOwnCellsSettled ==
    (OnGrid /\ opOut.kind = "return") => \A i \in DOMAIN opSeen : opSeen[i]

\* the columns of rowToSave in their order
SaveColumns == [i \in DOMAIN opArgs.rowToSave |-> opArgs.rowToSave[i][1]]

\* the actions of the trace that the order is about
Skeleton ==
    SelectSeq(opTrace, LAMBDA ev : ev.a \in {"goto", "waitGrid", "locateRow", "findCell",
                                             "insertText", "waitStatus", "readBack"})

RECURSIVE ColumnEvents(_)
ColumnEvents(names) ==
    IF names = <<>> THEN <<>>
    ELSE <<Ev("findCell", Head(names)), Ev("insertText", Head(names))>>
             \o ColumnEvents(Tail(names))

\* the order of a saveRecord that returns
WholeOrder ==
    <<Ev("goto", "menu#table"), Ev("waitGrid", "table.my-grid"), Ev("locateRow", "tr")>>
        \o ColumnEvents(SaveColumns)
        \o [i \in DOMAIN SaveColumns |-> Ev("waitStatus", SaveColumns[i])]
        \o <<Ev("readBack", "")>>

IsPrefix(p, q) == Len(p) <= Len(q) /\ \A i \in DOMAIN p : p[i] = q[i]

\* the places of the trace after the text of the last column, or after the
\* row was located when there is no column
AfterLastText ==
    {k \in DOMAIN opTrace :
        \A j \in k..Len(opTrace) : opTrace[j].a \notin {"insertText", "locateRow"}}

\* C28: the actions of one browser saveRecord come in the order grid, row,
\* then per column of rowToSave cell, entry keys and text, then one Tab, the
\* save-status waits and the read-back; touchedElements holds the columns of
\* rowToSave in their order; one Tab follows the last text, also with no column.
C28_ActionsInOrder ==
    OnGrid =>
        /\ IsPrefix(Skeleton, WholeOrder)
        /\ IsPrefix([i \in DOMAIN opTouched |-> opTouched[i].name], SaveColumns)
        /\ \A k \in DOMAIN opTrace :
              opTrace[k].a \in {"press", "focus"} /\ k \notin AfterLastText
                  => \E j \in (k + 1)..(k + 2) :
                        j \in DOMAIN opTrace /\ opTrace[j].a = "insertText"
        /\ opOut.kind = "return" =>
              /\ Skeleton = WholeOrder
              /\ [i \in DOMAIN opTouched |-> opTouched[i].name] = SaveColumns
              /\ Cardinality({k \in AfterLastText : opTrace[k] = Ev("press", "Tab")}) = 1
              /\ opTrace[CHOOSE k \in AfterLastText : \A j \in AfterLastText : k <= j]
                    = Ev("press", "Tab")

\* C28 witness: a saveRecord of a row with no columns returned, having pressed
\* Tab once between locating the row and reading back
C28_Witness ==
    /\ OnGrid
    /\ opArgs.rowToSave = <<>>
    /\ opOut.kind = "return"
    /\ opTrace[Len(opTrace) - 2].a = "locateRow"
    /\ opTrace[Len(opTrace) - 1] = Ev("press", "Tab")

\* the clicks on the insert button so far
InsClicks == {k \in DOMAIN opTrace : opTrace[k] = Ev("click", "INS")}

\* C29: with status 'new' the insert button is clicked once, before any cell
\* is looked up, and the row and the cells edited have no pk-values; with
\* status 'update' it is never clicked and the row and the cells edited have
\* the signature getJsonPkValues returned as their pk-values.
C29_RowByStatus ==
    OnGrid =>
        IF opArgs.status = "new"
        THEN /\ Cardinality(InsClicks) <= 1
             /\ \A k \in DOMAIN opTrace :
                   opTrace[k].a \in {"locateRow", "findCell", "insertText"}
                       => \E c \in InsClicks : c < k
             /\ opRow # Null => opRow.pk = Absent
             /\ \A i \in DOMAIN opTouched : opTouched[i].element.pk = Absent
        ELSE /\ InsClicks = {}
             /\ opRow # Null => opRow.pk = opArgs.JsonPk.value
             /\ \A i \in DOMAIN opTouched :
                   opTouched[i].element.pk = opArgs.JsonPk.value

\* C29 witness: an update whose signature has a quote, backslashes and a
\* double quote has edited a cell of the row with that signature
C29_Witness ==
    /\ OnGrid
    /\ opArgs.status = "update"
    /\ opArgs.JsonPk = Return(Chars(<<"'", "\\", "\\", "\"">>))
    /\ Len(opTouched) >= 1
    /\ opTouched[1].element.pk = Chars(<<"'", "\\", "\\", "\"">>)

\* the number of times the action is in the trace
TimesDone(ev) == Cardinality({k \in DOMAIN opTrace : opTrace[k] = ev})

\* C30: in browser saveRecord a time-out of the wait for the grid, the row, a
\* cell (after the lookup in the row and the one in the table both timed
\* out) or a save-status ends the call with that error; the grid is opened
\* at most once and the text of each column inserted at most once.
C30_TimeoutFailsNoRetry ==
    OnGrid =>
        /\ TimesDone(Ev("goto", "menu#table")) <= 1
        /\ \A c \in RtColumns : TimesDone(Ev("insertText", c)) <= 1
        /\ \A k \in DOMAIN opTrace :
              opTrace[k].a = "timeout" =>
                  IF opTrace[k].n = "cell in row"
                  THEN /\ k < Len(opTrace)
                       /\ \/ opTrace[k + 1].a = "findCell"
                          \/ opTrace[k + 1] = Ev("timeout", "cell in table")
                  ELSE /\ k = Len(opTrace)
                       /\ opPc = "done"
                       /\ opOut = TimeoutOn(opTrace[k].n)

\* C30 witness: after one column was typed, the cell of the next was found
\* neither in the row nor in the table, and the call failed with that time-out
C30_Witness ==
    /\ OnGrid
    /\ Len(opTouched) = 1
    /\ Len(opTrace) >= 2
    /\ opTrace[Len(opTrace) - 1] = Ev("timeout", "cell in row")
    /\ opTrace[Len(opTrace)] = Ev("timeout", "cell in table")
    /\ opOut = TimeoutOn("cell in table")

\* C26: every call of login, saveRecord and tableDataTest, in either mode,
\* whose awaits each end, returns or fails; while it has not, it has a step to take.
C26_EveryOperationEnds ==
    /\ [](opOut = NoOutcome => ENABLED OperationNext)
    /\ <>(opOut # NoOutcome)

\* C26 witness: a browser saveRecord of three columns has returned
C26_Witness ==
    /\ OnGrid
    /\ Len(opTouched) = 3
    /\ Len(opSeen) = 3
    /\ opOut.kind = "return"

(***************************************************************************)
(* Properties of the 'JSON+' separator (SpecParse).                        *)
(***************************************************************************)
\* a line the loop of getResult passes over: the empty line, or a record
\* whose `error` field is missing or falsy
IsPassedLine(l) ==
    \/ l = ""
    \/ /\ JSON4allParse(l).t = "object"
       /\ ~Truthy(JSON4allParse(l).error)

\* the separator is line k, and every line before it is passed over
SeparatorReachedAt(ls, k) ==
    /\ k \in 1..Len(ls)
    /\ ls[k] = Separator
    /\ \A i \in 1..(k - 1) : IsPassedLine(ls[i])

\* C32: a 'JSON+' response whose separator line is its last line, or is
\* followed by an empty line, returns null: it does not fail with
\* 'result not received', nor with any other error.
C32_SeparatorWithoutPayloadReturnsNull ==
    \A k \in 1..MaxLines :
        (/\ grPc = "done"
         /\ SeparatorReachedAt(grLines, k)
         /\ (k = Len(grLines) \/ grLines[k + 1] = "")) =>
            grOut = Return(Null)

\* C32 witness: a notice, then the separator, then an empty line and a line
\* after it, returned null
C32_Witness ==
    /\ grPc = "done"
    /\ Len(grLines) = 4
    /\ IsNoticeLine(grLines[1])
    /\ grLines[2] = Separator
    /\ grLines[3] = ""
    /\ grLines[4] # ""
    /\ grOut = Return(Null)

(***************************************************************************)
(* Properties of the row browser saveRecord reads back (SpecRoundTrip).    *)
(***************************************************************************)
\* the columns a row to save names
ColumnsOf(rowToSave) == {Keys(rowToSave)[i] : i \in DOMAIN rowToSave}

\* row holds, for each of its columns, the decoding of the text the stored
\* row shows in that column under the declared kind
ReadsFrom(row, stored) ==
    \A c \in DOMAIN row :
        LET decoded == ValueFromVisualRepresentation(TextContent(stored[c]),
                                                     rtDescription[c])
        IN  decoded.kind = "return" /\ row[c] = decoded.value

\* C31: the row a browser saveRecord returns has exactly the columns of
\* rowToSave, and each value is the decoding, under the declared schema,
\* of the text the saved row shows in the cell of that column.
C31_ReturnsTouchedColumnsDecoded ==
    \A k \in {1, 2} :
        (rtMode = "browser" /\ Len(rtOut) >= k /\ rtOut[k].kind = "return") =>
            /\ DOMAIN rtOut[k].value = ColumnsOf(rtRows[k])
            /\ Len(rtOut) = k =>
                  \E i \in DOMAIN rtStored : ReadsFrom(rtOut[k].value, rtStored[i])

\* C31 witness: a browser session saved a new row naming the name and the flag
\* only, the backend gave it a key, and the row returned holds no key
C31_Witness ==
    /\ rtMode = "browser"
    /\ Len(rtOut) = 1
    /\ rtOut[1].kind = "return"
    /\ ColumnsOf(rtRows[1]) = {"name", "active"}
    /\ rtOut[1].value.active = Bool(FALSE)
    /\ rtStored[Len(rtStored)].id = Str("7")

(***************************************************************************)
(* Properties of the fields of a session between its operations            *)
(* (SpecSession).                                                          *)
(***************************************************************************)
\* no operation of the session is in progress
NoCallInProgress == \A i \in DOMAIN calls : calls[i].pc = "done"

\* C33: whenever no operation of a browser session is in progress, its
\* context is present exactly when its page is, also after an initSession,
\* a login or a closeSession in which creating the page, or closing the page
\* or the context, failed.
C33_ContextIffPage ==
    (mode = "browser" /\ NoCallInProgress) => ((context # Null) <=> (page # Null))

\* config holds a client configuration
ConfigPresent(c) == c \notin {Undefined, Null}

\* call i is a login that ends in this step, and ends having succeeded or not
LoginEndsHere(i) ==
    /\ i \in DOMAIN calls
    /\ calls[i].op = "login"
    /\ calls[i].pc # "done"
    /\ calls'[i].pc = "done"

\* a closeSession is called, and ends, in this step
CloseSessionHere ==
    /\ Len(calls') = Len(calls) + 1
    /\ calls'[Len(calls')].op = "closeSession"

\* C34: the config of an HTTP session starts absent and changes only when a
\* login ends having succeeded, which sets it to the configuration read, or
\* when closeSession is called, which clears it; a login that ends having
\* failed leaves config as it was.  So config is present only if a login
\* succeeded since the last closeSession.
C34_ConfigOnlyFromSuccessfulLogin ==
    [][mode = "http" =>
          /\ config' # config =>
                \/ CloseSessionHere
                \/ \E i \in DOMAIN calls :
                      /\ LoginEndsHere(i)
                      /\ calls'[i].outcome = Return(Null)
                      /\ ConfigPresent(config')
          /\ CloseSessionHere => config' = Null
          /\ \A i \in DOMAIN calls :
                (LoginEndsHere(i) /\ calls'[i].outcome # Return(Null)) =>
                    config' = config]_vars

\* C34 witness: after a login that succeeded, a login with returnErrorMessage
\* returned the message of the error page, and config is still the
\* configuration the first login read
C34_Witness ==
    /\ mode = "http"
    /\ Len(calls) = 2
    /\ calls[1].op = "login" /\ calls[1].outcome = Return(Null)
    /\ calls[2].op = "login" /\ calls[2].outcome = Return(Str("bad user"))
    /\ config = JSON4allParse(ConfigText)

\* login call i met a response, or a page, that is not the success path
LoginFailed(i) ==
    IF mode = "http"
    THEN ~HttpLoginMatches(calls[i].location, SuccessRedirect)
    ELSE ~BrowserLoginMatches(calls[i].shown.url, SuccessRedirect)

\* C35: in both modes a login called with returnErrorMessage that returns
\* returns null only when it succeeded, and when it failed it returns a
\* non-empty text, also when the page shown holds no error-message element.
C35_FailedLoginReturnsMessage ==
    \A i \in DOMAIN calls :
        (/\ calls[i].op = "login"
         /\ calls[i].returnErrorMessage
         /\ calls[i].outcome.kind = "return") =>
            IF LoginFailed(i)
            THEN /\ calls[i].outcome.value.t = "string"
                 /\ calls[i].outcome.value.v # ""
            ELSE calls[i].outcome.value = Null

(***************************************************************************)
(* Properties of two calls of tableDataTest on the same rows               *)
(* (SpecFunctions).                                                        *)
(***************************************************************************)
\* the fixed-fields mismatch error, on some fixed field of the call
IsFixedFieldsMismatch(out) ==
    \E name \in FixedNames :
        out = Throw("Error in fixedFields in tableDataTest doesn't match the rows in "
                        \o name \o " field", Undefined)

\* C38: browser tableDataTest with fixed fields given as a record, called with
\* at least one expected row, deletes the fixed-field columns from the row
\* objects of the caller unless it fails with the fixed-fields mismatch error
\* on a value that differs, so the rows are not left as they were; and a
\* second call with the same row objects fails with the mismatch error.
C38_FixedFieldsDeletedInPlace ==
    (Called("tableDataTestTwice") /\ fnArgs.rows # <<>>) =>
        /\ IF CarryFixed(fnArgs.rows)
           THEN /\ ~IsFixedFieldsMismatch(fnOut.first)
                /\ fnOut.rows # fnArgs.rows
                /\ \A i \in DOMAIN fnArgs.rows :
                      fnOut.rows[i] = [k \in DOMAIN fnArgs.rows[i] \ FixedNames |->
                                          fnArgs.rows[i][k]]
           ELSE IsFixedFieldsMismatch(fnOut.first)
        /\ IsFixedFieldsMismatch(fnOut.second)

\* C38 witness: the first call compared and passed, and the second call, on
\* the rows the first left, failed
C38_Witness ==
    /\ Called("tableDataTestTwice")
    /\ fnArgs.rows # <<>>
    /\ fnOut.first = Return(Undefined)
    /\ "name" \in DOMAIN fnArgs.rows[1]
    /\ "name" \notin DOMAIN fnOut.rows[1]
    /\ fnOut.second.kind = "throw"

\* C39: for a field whose type is a nullable or optional wrapper,
\* valueFromVisualRepresentation fails for every text that is present, the
\* empty text included, and returns null when there is no text: such a field
\* is read back only from a cell without text.
C39_WrapperReadsOnlyNoText ==
    (/\ Called("valueFromVisualRepresentation")
     /\ fnArgs.type \in {"nullable", "optional"}) =>
        IF fnArgs.representation = Null
        THEN fnOut = Return(Null)
        ELSE /\ fnOut.kind = "throw"
             /\ fnOut.message = "valueFromVisualRepresentation error "
                                    \o fnArgs.representation.v \o " not a " \o fnArgs.type

\* C39 witness: the text "x" of an optional field was decoded, and the call failed
C39_Witness ==
    /\ Called("valueFromVisualRepresentation")
    /\ fnArgs.type = "optional"
    /\ fnArgs.representation = Str("x")
    /\ fnOut.kind = "throw"

(***************************************************************************)
(* Properties of tableDataSaveAndTest (SpecSaveAndTest).                   *)
(***************************************************************************)
\* the saves of the call that failed
FailedSaves == {j \in DOMAIN stLog : stLog[j].a = "failed"}

\* C36: tableDataSaveAndTest calls saveRecord for the rows one at a time, in
\* list order and with status 'new', each save ending before the next is
\* called; a save that fails is the last thing the call does, so no later row
\* is saved and nothing is compared; tableDataTest is called only after the
\* save of every row has returned.
C36_SavesInOrderThenCompares ==
    stMode # "none" =>
        /\ Len(stLog) <= 2 * Len(stRows) + 1
        /\ \A j \in DOMAIN stLog :
              IF j > 2 * Len(stRows)
              THEN /\ stLog[j].a = "tableDataTest"
                   /\ FailedSaves = {}
              ELSE IF j % 2 = 1
              THEN stLog[j] = StEv("saveRecord", (j + 1) \div 2, "new")
              ELSE /\ stLog[j].a \in {"saved", "failed"}
                   /\ stLog[j].n = j \div 2
                   /\ stLog[j].a = "failed" =>
                         /\ j = Len(stLog)
                         /\ stPc = "done"
                         /\ stOut.kind = "throw"
        /\ Len(stStored) <= Len(stLog) \div 2

\* C36 witness: of two rows the first was saved and the second was not, and
\* the call ended there with the table holding one row
C36_Witness ==
    /\ stMode = "http"
    /\ Len(stRows) = 2
    /\ Len(stLog) = 4
    /\ stLog[2].a = "saved"
    /\ stLog[4].a = "failed"
    /\ Len(stStored) = 1
    /\ stPc = "done"

\* the call ended by tableDataTest refusing the table name
RefusedByTableDataTest ==
    /\ stLog # <<>>
    /\ stLog[Len(stLog)].a = "tableDataTest"
    /\ stOut = MustUseTarget

\* the saves of the call that returned
ReturnedSaves == {j \in DOMAIN stLog : stLog[j].a = "saved"}

FirstNaming ==
    IF \E i \in DOMAIN stRows : stRows[i] # <<>>
    THEN CHOOSE i \in DOMAIN stRows :
            stRows[i] # <<>> /\ \A h \in 1..(i - 1) : stRows[h] = <<>>
    ELSE 0

\* what getFieldData fails with on a field the description does not declare
UndeclaredFieldError ==
    Throw("TypeError: Cannot use 'in' operator to search for 'string' in undefined",
          Undefined)

LastSwitch(k) ==
    LET switches == {j \in 1..k :
                        /\ bmCalls[j].op \in {"start", "stop"}
                        /\ bmCalls[j].out.kind = "return"
                        /\ bmCalls[j].before # bmCalls[j].after}
    IN  IF switches = {} THEN 0
        ELSE CHOOSE j \in switches : \A h \in switches : h <= j

\* after the first k calls the manager is between a start that completed and
\* the next stop that completes
BetweenStartAndStop(k) == LastSwitch(k) # 0 /\ bmCalls[LastSwitch(k)].op = "start"

\* the browsers launched that are open
OpenBrowsers == {b \in DOMAIN bmLaunched : bmLaunched[b] = "open"}

\* C40: over every sequence of start, stop, getBrowser and isStarted calls a
\* BrowserManager has at most one open browser of its launching, the one it
\* holds: start on a started manager fails and launches nothing, stop on a
\* stopped manager does nothing, getBrowser returns the browser held when
\* the manager is started and fails otherwise, a start after a stop is not
\* refused, and isStarted is true exactly between a start that completed and
\* the next stop that completes.
C40_AtMostOneBrowser ==
    bmType # "none" =>
        /\ Cardinality(OpenBrowsers) <= 1
        /\ \A b \in OpenBrowsers : bmBrowser = Num(b)
        /\ \A k \in DOMAIN bmCalls :
              LET c == bmCalls[k]
                  started == c.before # Null
              IN  /\ started <=> BetweenStartAndStop(k - 1)
                  /\ CASE c.op = "start" ->
                            IF started
                            THEN c.out = AlreadyStarted /\ c.launches = 0
                                     /\ c.after = c.before
                            ELSE /\ c.out # AlreadyStarted
                                 /\ c.launches = IF c.out.kind = "return" THEN 1 ELSE 0
                                 /\ c.out.kind = "return" =>
                                       c.after = c.out.value /\ c.after # Null
                       [] c.op = "stop" ->
                            /\ c.launches = 0
                            /\ ~started => (c.out = Return(Undefined) /\ c.after = Null)
                            /\ c.out.kind = "return" => c.after = Null
                       [] c.op = "getBrowser" ->
                            /\ c.after = c.before /\ c.launches = 0
                            /\ c.out = IF started THEN Return(c.before) ELSE NotStarted
                       [] c.op = "isStarted" ->
                            /\ c.after = c.before /\ c.launches = 0
                            /\ c.out = Return(Bool(BetweenStartAndStop(k - 1)))

\* C40 witness: a start, a second start that failed, a stop, and a start that
\* launched a second browser after the first was closed
C40_Witness ==
    /\ Len(bmCalls) = 4
    /\ bmCalls[1].op = "start" /\ bmCalls[1].out.kind = "return"
    /\ bmCalls[2].op = "start" /\ bmCalls[2].out = AlreadyStarted
    /\ bmCalls[3].op = "stop" /\ bmCalls[3].out.kind = "return"
    /\ bmCalls[4].op = "start" /\ bmCalls[4].out = Return(Num(2))
    /\ bmLaunched = <<"closed", "open">>

====
